---------------------------- MODULE Spec2Model ----------------------------
(***************************************************************************)
(* Non-native big-integer arithmetic and short-Weierstrass curve gadgets   *)
(* of halo2-lib, modelled over toy parameters: limbs of a few bits and     *)
(* curves y^2 = x^3 + b over a one-digit prime field.                      *)
(*                                                                         *)
(* A gadget is modelled by what it leaves in the constraint builder: the   *)
(* witness value it assigns (Unknown on a pass without witnesses), whether *)
(* building it panicked, and the relation its constraints put on the       *)
(* assigned cells.                                                         *)
(***************************************************************************)
EXTENDS Integers, Sequences, FiniteSets, TLC

VARIABLES
    carry,   \* one call of get_carry_witness: its arguments and its result
    big,     \* one call of an OverflowInteger combinator or of carry_mod
    ec,      \* one call of a field-division or curve-point gadget
    sm,      \* one run of scalar_multiply
    msm      \* one run of multi_scalar_multiply

vars == <<carry, big, ec, sm, msm>>

(***************************************************************************)
(* Bounds of the model.                                                    *)
(***************************************************************************)
MaxAbsA == 12       \* get_carry_witness is applied to a in -MaxAbsA..MaxAbsA
MaxModulus == 6     \* ... and to moduli 1..MaxModulus
MaxWindowBits == 2  \* scalar_multiply runs with window_bits in 1..MaxWindowBits
MaxMultiple == 3    \* the points of an MSM are the multiples 0..MaxMultiple of one point
MaxLimb == 2        \* operands of the bigint gadgets have max_limb_size in 1..MaxLimb
WideLimb == 32      \* ... or the max_limb_size WideLimb of an integer left to overflow

(***************************************************************************)
(* Integer helpers.                                                        *)
(***************************************************************************)
Abs(x) == IF x < 0 THEN -x ELSE x

Min(x, y) == IF x < y THEN x ELSE y

Max(x, y) == IF x < y THEN y ELSE x

RECURSIVE Pow2(_)
Pow2(e) == IF e <= 0 THEN 1 ELSE 2 * Pow2(e - 1)

\* BigUint::bits: the number of significant bits, 0 for 0
RECURSIVE Bits(_)
Bits(x) == IF x <= 0 THEN 0 ELSE 1 + Bits(x \div 2)

(***************************************************************************)
(* Values that belong to no run: the state of a component that the         *)
(* specification at hand does not exercise.                                *)
(***************************************************************************)
IdleCarry == [pc |-> "idle"]
IdleBig == [pc |-> "idle"]
IdleEc == [pc |-> "idle"]
IdleSm == [pc |-> "idle"]
IdleMsm == [pc |-> "idle"]

(***************************************************************************)
(* bigint/carry_mod.rs: get_carry_witness.  BigUint division truncates;    *)
(* the negative branch rounds the quotient of |a| up, so that the          *)
(* remainder modulus * quotient - |a| is not negative.                     *)
(***************************************************************************)
get_carry_witness_truncating(a, modulus) ==
    IF a < 0
    THEN LET a_neg == -a
             quotient == a_neg \div modulus
         IN  [out |-> a_neg - modulus * quotient, quotient |-> -quotient]
    ELSE LET quotient == a \div modulus
         IN  [out |-> a - modulus * quotient, quotient |-> quotient]

get_carry_witness(a, modulus) ==
    IF a < 0
    THEN LET a_neg == -a
             quotient == (a_neg + modulus - 1) \div modulus
         IN  [out |-> modulus * quotient - a_neg, quotient |-> -quotient]
    ELSE LET quotient == a \div modulus
         IN  [out |-> a - modulus * quotient, quotient |-> quotient]

InitWitness ==
    /\ \E a \in -MaxAbsA..MaxAbsA, modulus \in 1..MaxModulus :
           carry = [pc |-> "start", a |-> a, modulus |-> modulus]
    /\ big = IdleBig
    /\ ec = IdleEc
    /\ sm = IdleSm
    /\ msm = IdleMsm

\* the call get_carry_witness(&a, &modulus), as test_carry_witness makes it
CarryWitness ==
    /\ carry.pc = "start"
    /\ LET r == get_carry_witness(carry.a, carry.modulus)
       IN  carry' = [carry EXCEPT !.pc = "done"] @@ r
    /\ UNCHANGED <<big, ec, sm, msm>>

NextWitness == CarryWitness

SpecWitness == InitWitness /\ [][NextWitness]_vars

\* C1: for every integer a and every modulus p >= 1, get_carry_witness(a, p)
\* returns (out, q) with 0 <= out < p and a = out + p*q over the integers.
C1_CarryWitnessExact ==
    carry.pc = "done" =>
        /\ 0 <= carry.out
        /\ carry.out < carry.modulus
        /\ carry.a = carry.out + carry.modulus * carry.quotient

\* a negative a that is no multiple of the modulus has been reduced
C1_Witness ==
    /\ carry.pc = "done"
    /\ carry.a < 0
    /\ carry.out > 0
    /\ carry.quotient < 0


(***************************************************************************)
(* Field elements.  A FieldPoint is modelled by the residue it stands for  *)
(* modulo the curve's base-field prime p, or by Unknown on a pass that     *)
(* carries no witness (Value::unknown(), Option::None).                    *)
(***************************************************************************)
Unknown == -1

Known(a) == a # Unknown

\* ecc/mod.rs get_value: the value if there is one, else F::default() = 0
get_value(a) == IF a = Unknown THEN 0 ELSE a

FieldElems(cv) == 0..(cv.p - 1)

\* Field::invert of a nonzero element
FInv(cv, a) == CHOOSE i \in FieldElems(cv) : (a * i) % cv.p = 1

\* x - y, x + y, x * y and k * x in the base field; Value::zip keeps Unknown
FSub(cv, x, y) == IF Known(x) /\ Known(y) THEN (x - y) % cv.p ELSE Unknown

FAdd(cv, x, y) == IF Known(x) /\ Known(y) THEN (x + y) % cv.p ELSE Unknown

FMul(cv, x, y) == IF Known(x) /\ Known(y) THEN (x * y) % cv.p ELSE Unknown

\* check_carry_mod_to_zero on assigned cells: the value is 0 modulo p
IsZeroModP(cv, x) == Known(x) /\ x % cv.p = 0

(***************************************************************************)
(* Curves y^2 = x^3 + b.  BnToy has b = 3 as BN254 has, and 13 points;     *)
(* OtherToy stands for any other curve the generic gadgets are built for   *)
(* (b # 3, 7 points).  Both groups have prime order, so no point has y = 0.*)
(***************************************************************************)
BnToy == [p |-> 7, b |-> 3, order |-> 13]

OtherToy == [p |-> 7, b |-> 5, order |-> 7]

ToyCurves == {BnToy, OtherToy}

Pt(x, y) == [x |-> x, y |-> y]

FieldPoints(cv) == {Pt(x, y) : x \in FieldElems(cv), y \in FieldElems(cv)}

OnCurve(cv, P) == (P.y * P.y - (P.x * P.x * P.x + cv.b)) % cv.p = 0

CurvePoints(cv) == {P \in FieldPoints(cv) : OnCurve(cv, P)}

\* the identity has no representation; a point with y = 0 stands for it
IdentityPoint == Pt(0, 0)

UnknownPoint == Pt(Unknown, Unknown)

NoPoint == Pt(Unknown, Unknown)

KnownPoint(P) == Known(P.x) /\ Known(P.y)

(***************************************************************************)
(* fields/mod.rs: divide and neg_divide.  The quotient is witnessed from   *)
(* the cleartext values (None when b has no inverse or a value is          *)
(* missing), and constrained by quot * b - a = 0, resp. quot * b + a = 0,  *)
(* modulo p.  Neither panics.                                              *)
(***************************************************************************)
divide_witness(cv, a, b) ==
    IF Known(a) /\ Known(b) /\ b % cv.p # 0
    THEN (a * FInv(cv, b % cv.p)) % cv.p
    ELSE Unknown

divide_constraints(cv, a, b, quot) ==
    /\ Known(quot)
    /\ IsZeroModP(cv, FSub(cv, FMul(cv, quot, b), a))

neg_divide_witness(cv, a, b) ==
    IF Known(a) /\ Known(b) /\ b % cv.p # 0
    THEN ((0 - a) * FInv(cv, b % cv.p)) % cv.p
    ELSE Unknown

neg_divide_constraints_as_divide(cv, a, b, quot) ==
    /\ Known(quot)
    /\ IsZeroModP(cv, FSub(cv, FMul(cv, quot, b), a))

neg_divide_constraints(cv, a, b, quot) ==
    /\ Known(quot)
    /\ IsZeroModP(cv, FAdd(cv, FMul(cv, quot, b), a))

(***************************************************************************)
(* ecc/mod.rs: ec_add_unequal.  The sum is computed in the clear from      *)
(* get_value of the four coordinates, behind two assert_ne!, and loaded as *)
(* a fresh witness R; R is then constrained to lie on y^2 = x^3 + 3 and to *)
(* satisfy (y3 - y1)(x2 - x1) = (y2 - y1)(x3 - x1).  is_strict is not read.*)
(***************************************************************************)
ec_add_unequal_witness(cv, P, Q) ==
    LET px == get_value(P.x)
        py == get_value(P.y)
        qx == get_value(Q.x)
        qy == get_value(Q.y)
    IN  IF px = qx \/ py = qy
        THEN [status |-> "panic", R |-> NoPoint]
        ELSE LET lambda == ((qy - py) * FInv(cv, (qx - px) % cv.p)) % cv.p
                 rx == (lambda * lambda - px - qx) % cv.p
                 ry == (lambda * (px - rx) - py) % cv.p
             IN  [status |-> "ok", R |-> Pt(rx, ry)]

ec_add_unequal_constraints(cv, P, Q, R, is_strict) ==
    /\ KnownPoint(P) /\ KnownPoint(Q) /\ KnownPoint(R)
    /\ LET lhs == FMul(cv, R.y, R.y)
           rhs == FAdd(cv, FMul(cv, FMul(cv, R.x, R.x), R.x), 3)
       IN  IsZeroModP(cv, FSub(cv, lhs, rhs))
    /\ LET lhs == FMul(cv, FSub(cv, R.y, P.y), FSub(cv, Q.x, P.x))
           rhs == FMul(cv, FSub(cv, Q.y, P.y), FSub(cv, R.x, P.x))
       IN  IsZeroModP(cv, FSub(cv, lhs, rhs))

\* what one call leaves behind: whether it returned, the point it returned,
\* and whether the cells it assigned satisfy the constraints it emitted
ec_add_unequal(cv, P, Q, is_strict) ==
    LET w == ec_add_unequal_witness(cv, P, Q)
    IN  [status |-> w.status,
         R |-> w.R,
         sat |-> w.status = "ok"
                   /\ ec_add_unequal_constraints(cv, P, Q, w.R, is_strict)]

(***************************************************************************)
(* ecc/mod.rs: ec_sub_unequal, P - Q through lambda = -(y2 + y1)/(x2 - x1) *)
(* from neg_divide; x3 and y3 come out of carry_mod, so lambda fixes them. *)
(***************************************************************************)
ec_sub_unequal_result(cv, P, Q, lambda) ==
    LET x_3 == FSub(cv, FSub(cv, FMul(cv, lambda, lambda), P.x), Q.x)
        y_3 == FSub(cv, FMul(cv, lambda, FSub(cv, P.x, x_3)), P.y)
    IN  Pt(x_3, y_3)

ec_sub_unequal_constraints(cv, P, Q, lambda, R, is_strict) ==
    /\ KnownPoint(P) /\ KnownPoint(Q) /\ KnownPoint(R)
    /\ is_strict => P.x # Q.x
    /\ neg_divide_constraints(cv, FAdd(cv, Q.y, P.y), FSub(cv, Q.x, P.x), lambda)
    /\ R = ec_sub_unequal_result(cv, P, Q, lambda)

ec_sub_unequal(cv, P, Q, is_strict) ==
    LET dx == FSub(cv, Q.x, P.x)
        dy == FAdd(cv, Q.y, P.y)
        lambda == neg_divide_witness(cv, dy, dx)
        R == ec_sub_unequal_result(cv, P, Q, lambda)
    IN  [status |-> "ok",
         R |-> R,
         sat |-> ec_sub_unequal_constraints(cv, P, Q, lambda, R, is_strict)]

(***************************************************************************)
(* ecc/mod.rs: ec_double, 2P through lambda = 3x^2 / (2y) from divide.     *)
(***************************************************************************)
ec_double_result_single_x(cv, P, lambda) ==
    LET x_3 == FSub(cv, FMul(cv, lambda, lambda), P.x)
        y_3 == FSub(cv, FMul(cv, lambda, FSub(cv, P.x, x_3)), P.y)
    IN  Pt(x_3, y_3)

ec_double_result(cv, P, lambda) ==
    LET two_x == FMul(cv, P.x, 2)
        x_3 == FSub(cv, FMul(cv, lambda, lambda), two_x)
        y_3 == FSub(cv, FMul(cv, lambda, FSub(cv, P.x, x_3)), P.y)
    IN  Pt(x_3, y_3)

ec_double_constraints(cv, P, lambda, R) ==
    /\ KnownPoint(P) /\ KnownPoint(R)
    /\ divide_constraints(cv, FMul(cv, FMul(cv, P.x, 3), P.x), FMul(cv, P.y, 2), lambda)
    /\ R = ec_double_result(cv, P, lambda)

ec_double(cv, P) ==
    LET two_y == FMul(cv, P.y, 2)
        three_x_sq == FMul(cv, FMul(cv, P.x, 3), P.x)
        lambda == divide_witness(cv, three_x_sq, two_y)
        R == ec_double_result(cv, P, lambda)
    IN  [status |-> "ok",
         R |-> R,
         sat |-> ec_double_constraints(cv, P, lambda, R)]

(***************************************************************************)
(* One call of a gadget on operands a caller may hand it: points of the    *)
(* curve and the y = 0 stand-in of the identity, on a pass with witnesses  *)
(* (known) or on the key-generation pass (all values Unknown).             *)
(***************************************************************************)
Operands(cv) == CurvePoints(cv) \cup {IdentityPoint}

OperandOnPass(P, known) == IF known THEN P ELSE UnknownPoint

InitEc ==
    /\ ec = [pc |-> "start"]
    /\ carry = IdleCarry
    /\ big = IdleBig
    /\ sm = IdleSm
    /\ msm = IdleMsm

\* EccChip::add_unequal -> ec_add_unequal
EcAddUnequal ==
    /\ ec.pc = "start"
    /\ \E cv \in ToyCurves, is_strict \in BOOLEAN, known \in BOOLEAN :
       \E P0 \in Operands(cv), Q0 \in Operands(cv) :
           LET P == OperandOnPass(P0, known)
               Q == OperandOnPass(Q0, known)
               r == ec_add_unequal(cv, P, Q, is_strict)
           IN  ec' = [pc |-> "done", op |-> "add_unequal", curve |-> cv,
                      P |-> P, Q |-> Q, is_strict |-> is_strict, known |-> known,
                      status |-> r.status, R |-> r.R, sat |-> r.sat,
                      accepted |-> {R \in FieldPoints(cv) :
                          ec_add_unequal_constraints(cv, P, Q, R, is_strict)}]
    /\ UNCHANGED <<carry, big, sm, msm>>

\* EccChip::sub_unequal -> ec_sub_unequal
EcSubUnequal ==
    /\ ec.pc = "start"
    /\ \E cv \in ToyCurves, is_strict \in BOOLEAN, known \in BOOLEAN :
       \E P0 \in Operands(cv), Q0 \in Operands(cv) :
           LET P == OperandOnPass(P0, known)
               Q == OperandOnPass(Q0, known)
               r == ec_sub_unequal(cv, P, Q, is_strict)
           IN  ec' = [pc |-> "done", op |-> "sub_unequal", curve |-> cv,
                      P |-> P, Q |-> Q, is_strict |-> is_strict, known |-> known,
                      status |-> r.status, R |-> r.R, sat |-> r.sat,
                      accepted |-> {R \in FieldPoints(cv) :
                          \E lambda \in FieldElems(cv) :
                              ec_sub_unequal_constraints(cv, P, Q, lambda, R, is_strict)}]
    /\ UNCHANGED <<carry, big, sm, msm>>

\* EccChip::double -> ec_double
EcDouble ==
    /\ ec.pc = "start"
    /\ \E cv \in ToyCurves, known \in BOOLEAN :
       \E P0 \in Operands(cv) :
           LET P == OperandOnPass(P0, known)
               r == ec_double(cv, P)
           IN  ec' = [pc |-> "done", op |-> "double", curve |-> cv,
                      P |-> P, Q |-> P, is_strict |-> FALSE, known |-> known,
                      status |-> r.status, R |-> r.R, sat |-> r.sat,
                      accepted |-> {R \in FieldPoints(cv) :
                          \E lambda \in FieldElems(cv) :
                              ec_double_constraints(cv, P, lambda, R)}]
    /\ UNCHANGED <<carry, big, sm, msm>>

\* FieldChip::divide and FieldChip::neg_divide; the operands a and b are
\* kept as the coordinates of P, the quotient as the x of R
EcDivide ==
    /\ ec.pc = "start"
    /\ \E cv \in ToyCurves, known \in BOOLEAN, negated \in BOOLEAN :
       \E a0 \in FieldElems(cv), b0 \in FieldElems(cv) :
           LET a == IF known THEN a0 ELSE Unknown
               b == IF known THEN b0 ELSE Unknown
               quot == IF negated THEN neg_divide_witness(cv, a, b)
                                  ELSE divide_witness(cv, a, b)
               ok(x) == IF negated THEN neg_divide_constraints(cv, a, b, x)
                                   ELSE divide_constraints(cv, a, b, x)
           IN  ec' = [pc |-> "done",
                      op |-> IF negated THEN "neg_divide" ELSE "divide",
                      curve |-> cv, P |-> Pt(a, b), Q |-> Pt(a, b),
                      is_strict |-> FALSE, known |-> known,
                      status |-> "ok", R |-> Pt(quot, quot), sat |-> ok(quot),
                      accepted |-> {Pt(x, x) : x \in {y \in FieldElems(cv) : ok(y)}}]
    /\ UNCHANGED <<carry, big, sm, msm>>

NextEc == EcAddUnequal \/ EcSubUnequal \/ EcDouble \/ EcDivide

SpecEc == InitEc /\ [][NextEc]_vars

(***************************************************************************)
(* Cleartext affine arithmetic on y^2 = x^3 + b, the reference the gadgets *)
(* are compared with.                                                      *)
(***************************************************************************)
AffineAdd(cv, P, Q) ==
    LET slope == ((Q.y - P.y) * FInv(cv, (Q.x - P.x) % cv.p)) % cv.p
        x3 == (slope * slope - P.x - Q.x) % cv.p
        y3 == (slope * (P.x - x3) - P.y) % cv.p
    IN  Pt(x3, y3)

AffineDouble(cv, P) ==
    LET slope == (3 * P.x * P.x * FInv(cv, (2 * P.y) % cv.p)) % cv.p
        x3 == (slope * slope - 2 * P.x) % cv.p
        y3 == (slope * (P.x - x3) - P.y) % cv.p
    IN  Pt(x3, y3)

AffineNeg(cv, P) == Pt(P.x, (0 - P.y) % cv.p)

EcDone(op) == ec.pc = "done" /\ ec.op = op

\* C2: for all curve points P, Q with P.x # Q.x (P.y = Q.y included),
\* add_unequal completes and the result points its constraints accept are
\* exactly the affine sum P + Q on the curve with the curve's own b.
C2_AddUnequalIsAffineSum ==
    (/\ EcDone("add_unequal")
     /\ ec.known
     /\ OnCurve(ec.curve, ec.P)
     /\ OnCurve(ec.curve, ec.Q)
     /\ ec.P.x # ec.Q.x)
    => /\ ec.status = "ok"
       /\ ec.accepted = {AffineAdd(ec.curve, ec.P, ec.Q)}

\* C3: add_unequal with is_strict = TRUE on two points of equal x emits
\* constraints that no result point satisfies.
C3_StrictEqualXUnsatisfiable ==
    (/\ EcDone("add_unequal")
     /\ ec.known
     /\ ec.is_strict
     /\ OnCurve(ec.curve, ec.P)
     /\ OnCurve(ec.curve, ec.Q)
     /\ ec.P.x = ec.Q.x)
    => ec.accepted = {}

\* C9: building add_unequal, sub_unequal, double, divide or neg_divide never
\* panics because of the witness values.
C9_NoPanicOnWitnessValues ==
    (ec.pc = "done" /\ ec.known) => ec.status = "ok"

\* C10: on the pass without witnesses the gadgets complete, and return what
\* the pass with witnesses returns up to the values.
C10_KeygenPassCompletes ==
    (ec.pc = "done" /\ ~ec.known) => ec.status = "ok"

(***************************************************************************)
(* Gate-level helpers of the curve gadgets.  Vectors keep the code's       *)
(* 0-based indices: At(v, i) is v[i].                                      *)
(***************************************************************************)
At(v, i) == v[i + 1]

\* v[lo..hi], a half-open range of 0-based indices
Slice(v, lo, hi) == SubSeq(v, lo + 1, hi)

RECURSIVE SeqSum(_)
SeqSum(v) == IF v = <<>> THEN 0 ELSE Head(v) + SeqSum(Tail(v))

RECURSIVE Flatten(_)
Flatten(vs) == IF vs = <<>> THEN <<>> ELSE Head(vs) \o Flatten(Tail(vs))

\* num_to_bits: the max_bits little-endian bits of a chunk below 2^max_bits
num_to_bits(x, max_bits) == [i \in 1..max_bits |-> (x \div Pow2(i - 1)) % 2]

\* flex_gate.rs or: a + b - a*b
\* an exclusive or in place of or
gate_or_exclusive(a, b) == a + b - 2 * a * b

gate_or(a, b) == a + b - a * b

\* is_zero of a native value
gate_is_zero(a) == IF a = 0 THEN 1 ELSE 0

\* flex_gate.rs bits_to_indicator: starting from the last bit, every
\* indicator so far is split by the next lower bit into (ind - ind*bit, ind*bit)
RECURSIVE indicator_rounds(_, _, _)
indicator_rounds(bits, level, idx) ==
    IF idx >= Len(bits)
    THEN level
    ELSE LET bit == At(bits, Len(bits) - 1 - idx)
             split == [j \in 1..(2 * Len(level)) |->
                          LET old == level[(j + 1) \div 2]
                          IN  IF j % 2 = 1 THEN old - old * bit ELSE old * bit]
         IN  indicator_rounds(bits, split, idx + 1)

\* bits_to_indicator seeded with the first bit instead of the last
bits_to_indicator_first_bit(bits) ==
    LET last_bit == At(bits, 0)
    IN  indicator_rounds(bits, <<1 - last_bit, last_bit>>, 1)

bits_to_indicator(bits) ==
    LET last_bit == At(bits, Len(bits) - 1)
    IN  indicator_rounds(bits, <<1 - last_bit, last_bit>>, 1)

\* Selectable::select on field elements: a*sel + b*(1 - sel)
field_select(cv, a, b, sel) ==
    IF Known(a) /\ Known(b) THEN (a * sel + b * (1 - sel)) % cv.p ELSE Unknown

\* Selectable::select_by_indicator on field elements: sum of coeffs[i]*a[i]
RECURSIVE inner_product(_, _, _)
inner_product(cv, a, coeffs) ==
    IF a = <<>>
    THEN 0
    ELSE LET rest == inner_product(cv, Tail(a), Tail(coeffs))
         IN  IF Known(Head(a)) /\ Known(rest)
             THEN (Head(a) * Head(coeffs) + rest) % cv.p
             ELSE Unknown

ec_select_swapped(cv, P, Q, sel) ==
    Pt(field_select(cv, Q.x, P.x, sel), field_select(cv, Q.y, P.y, sel))

ec_select(cv, P, Q, sel) ==
    Pt(field_select(cv, P.x, Q.x, sel), field_select(cv, P.y, Q.y, sel))

ec_select_by_indicator(cv, points, coeffs) ==
    LET x_coords == [i \in 1..Len(points) |-> points[i].x]
        y_coords == [i \in 1..Len(points) |-> points[i].y]
    IN  Pt(inner_product(cv, x_coords, coeffs), inner_product(cv, y_coords, coeffs))

\* panics unless there are 2^(number of selector bits) points
ec_select_from_bits(cv, points, sel) ==
    IF Pow2(Len(sel)) # Len(points)
    THEN [status |-> "panic", R |-> NoPoint]
    ELSE [status |-> "ok",
          R |-> ec_select_by_indicator(cv, points, bits_to_indicator(sel))]

(***************************************************************************)
(* ecc/mod.rs: scalar_multiply.  A run is started on a point P, a scalar   *)
(* given in chunks of max_bits bits (least significant chunk first) and a  *)
(* window width; it then builds the table, seeds the accumulator from the  *)
(* top window and handles the remaining windows one by one.  A failed      *)
(* assertion anywhere ends the run in pc = "panic".                        *)
(***************************************************************************)
SmCurves == {BnToy}

\* the chunkings of the scalars below 16: one chunk of 4 bits, two of 2 bits
ChunkShapes == {[max_bits |-> 4, len |-> 1], [max_bits |-> 2, len |-> 2]}

Chunkings(shape) ==
    [1..shape.len -> 0..(Pow2(shape.max_bits) - 1)]

RECURSIVE ScalarValue(_, _)
ScalarValue(scalar, max_bits) ==
    IF scalar = <<>>
    THEN 0
    ELSE Head(scalar) + Pow2(max_bits) * ScalarValue(Tail(scalar), max_bits)

sm_total_bits(r) == r.max_bits * Len(r.scalar)

sm_num_windows(r) == (sm_total_bits(r) + r.window_bits - 1) \div r.window_bits

sm_rounded_bitlen(r) == sm_num_windows(r) * r.window_bits

\* the bits of all chunks, padded with zero cells up to rounded_bitlen
sm_rounded_bits(r) ==
    Flatten([i \in 1..Len(r.scalar) |-> num_to_bits(r.scalar[i], r.max_bits)])
        \o [i \in 1..(sm_rounded_bitlen(r) - sm_total_bits(r)) |-> 0]

RECURSIVE sm_is_started_loop(_, _, _, _)
sm_is_started_loop(r, rounded_bits, is_started, idx) ==
    IF idx >= sm_total_bits(r)
    THEN is_started
    ELSE LET or == gate_or(
                 At(is_started, sm_rounded_bitlen(r) - sm_total_bits(r) + idx - 1),
                 At(rounded_bits, sm_total_bits(r) - idx))
         IN  sm_is_started_loop(r, rounded_bits, Append(is_started, or), idx + 1)

sm_is_started(r, rounded_bits) ==
    sm_is_started_loop(r, rounded_bits,
        [i \in 1..(sm_rounded_bitlen(r) - sm_total_bits(r)) |-> 0] \o <<0>>, 1)

\* the bits of window idx, windows counted from the most significant one
sm_window(r, rounded_bits, idx) ==
    Slice(rounded_bits,
          sm_rounded_bitlen(r) - r.window_bits * (idx + 1),
          sm_rounded_bitlen(r) - r.window_bits * idx)

sm_is_zero_window(r, rounded_bits) ==
    [i \in 1..sm_num_windows(r) |->
        gate_is_zero(SeqSum(sm_window(r, rounded_bits, i - 1)))]

sm_cache_size(r) == Pow2(r.window_bits)

InitSm ==
    /\ \E cv \in SmCurves, window_bits \in 1..MaxWindowBits :
       \E P \in CurvePoints(cv), shape \in ChunkShapes :
       \E scalar \in Chunkings(shape) \cup {<<>>} :
           sm = [pc |-> "start", curve |-> cv, P |-> P, scalar |-> scalar,
                 max_bits |-> shape.max_bits, window_bits |-> window_bits,
                 rounded_bits |-> <<>>, is_started |-> <<>>,
                 is_zero_window |-> <<>>, cached_points |-> <<>>,
                 curr_point |-> NoPoint, idx |-> 0, sat |-> TRUE,
                 adds |-> {}, failed |-> "none"]
    /\ carry = IdleCarry
    /\ big = IdleBig
    /\ ec = IdleEc
    /\ msm = IdleMsm

SmPanic(why) == sm' = [sm EXCEPT !.pc = "panic", !.failed = why]

\* lines 325-374: the assertions, the bits, is_started, is_zero_window and
\* the first two table entries
SmBits ==
    /\ sm.pc = "start"
    /\ IF sm.scalar = <<>>
       THEN SmPanic("assert !scalar.is_empty()")
       ELSE LET rounded_bits == sm_rounded_bits(sm)
            IN  sm' = [sm EXCEPT !.pc = "table",
                                 !.rounded_bits = rounded_bits,
                                 !.is_started = sm_is_started(sm, rounded_bits),
                                 !.is_zero_window = sm_is_zero_window(sm, rounded_bits),
                                 !.cached_points = <<sm.P, sm.P>>]
    /\ UNCHANGED <<carry, big, ec, msm>>

\* lines 375-383: one more table entry, 2P by ec_double and every later
\* one by ec_add_unequal(cached_points[idx - 1], P, false)
SmTable ==
    /\ sm.pc = "table"
    /\ Len(sm.cached_points) < sm_cache_size(sm)
    /\ LET idx == Len(sm.cached_points)
           prev == At(sm.cached_points, idx - 1)
           r == IF idx = 2
                THEN ec_double(sm.curve, sm.P)
                ELSE ec_add_unequal(sm.curve, prev, sm.P, FALSE)
       IN  IF r.status = "panic"
           THEN sm' = [sm EXCEPT !.pc = "panic", !.failed = "ec_add_unequal",
                                 !.adds = @ \cup {<<prev, sm.P>>}]
           ELSE sm' = [sm EXCEPT !.cached_points = Append(@, r.R),
                                 !.sat = @ /\ r.sat,
                                 !.adds = IF idx = 2 THEN @ ELSE @ \cup {<<prev, sm.P>>}]
    /\ UNCHANGED <<carry, big, ec, msm>>

\* lines 385-391: the accumulator starts at the table entry of the top window
SmSeed ==
    /\ sm.pc = "table"
    /\ Len(sm.cached_points) >= sm_cache_size(sm)
    /\ LET r == ec_select_from_bits(sm.curve, sm.cached_points,
                                    sm_window(sm, sm.rounded_bits, 0))
       IN  IF r.status = "panic"
           THEN SmPanic("ec_select_from_bits")
           ELSE sm' = [sm EXCEPT !.pc = "loop", !.curr_point = r.R, !.idx = 1]
    /\ UNCHANGED <<carry, big, ec, msm>>

\* lines 393-411: one window: window_bits doublings, the selection of the
\* window's table entry, their sum, and the two selects that keep
\* mult_point on a zero window and add_point before the scalar has started
RECURSIVE sm_doublings(_, _, _)
sm_doublings(cv, acc, n) ==
    IF n = 0
    THEN acc
    ELSE LET d == ec_double(cv, acc.R)
         IN  sm_doublings(cv, [R |-> d.R, sat |-> acc.sat /\ d.sat], n - 1)

SmWindow ==
    /\ sm.pc = "loop"
    /\ sm.idx < sm_num_windows(sm)
    /\ LET cv == sm.curve
           mult == sm_doublings(cv, [R |-> sm.curr_point, sat |-> TRUE], sm.window_bits)
           mult_point == mult.R
           sel == ec_select_from_bits(cv, sm.cached_points,
                                      sm_window(sm, sm.rounded_bits, sm.idx))
           add_point == sel.R
           mult_and_add == ec_add_unequal(cv, mult_point, add_point, FALSE)
           is_started_point == ec_select(cv, mult_point, mult_and_add.R,
                                         At(sm.is_zero_window, sm.idx))
           next_point == ec_select(cv, is_started_point, add_point,
                                   At(sm.is_started, sm.window_bits * sm.idx))
       IN  IF sel.status = "panic"
           THEN SmPanic("ec_select_from_bits")
           ELSE IF mult_and_add.status = "panic"
           THEN sm' = [sm EXCEPT !.pc = "panic", !.failed = "ec_add_unequal",
                                 !.adds = @ \cup {<<mult_point, add_point>>}]
           ELSE sm' = [sm EXCEPT !.curr_point = next_point,
                                 !.idx = @ + 1,
                                 !.sat = @ /\ mult.sat /\ mult_and_add.sat,
                                 !.adds = @ \cup {<<mult_point, add_point>>}]
    /\ UNCHANGED <<carry, big, ec, msm>>

\* line 412: the accumulator is returned
SmReturn ==
    /\ sm.pc = "loop"
    /\ sm.idx >= sm_num_windows(sm)
    /\ sm' = [sm EXCEPT !.pc = "done"]
    /\ UNCHANGED <<carry, big, ec, msm>>

NextSm == SmBits \/ SmTable \/ SmSeed \/ SmWindow \/ SmReturn

SpecSm == InitSm /\ [][NextSm]_vars

(***************************************************************************)
(* The group of the curve in the clear, with IdentityPoint for the         *)
(* identity (no curve point has y = 0).                                    *)
(***************************************************************************)
GroupAdd(cv, P, Q) ==
    IF P = IdentityPoint THEN Q
    ELSE IF Q = IdentityPoint THEN P
    ELSE IF P.x # Q.x THEN AffineAdd(cv, P, Q)
    ELSE IF P.y = Q.y THEN AffineDouble(cv, P)
    ELSE IdentityPoint

GroupNeg(cv, P) == IF P = IdentityPoint THEN P ELSE AffineNeg(cv, P)

RECURSIVE GroupMul(_, _, _)
GroupMul(cv, s, P) ==
    IF s = 0 THEN IdentityPoint ELSE GroupAdd(cv, P, GroupMul(cv, s - 1, P))

SmEnded == sm.pc \in {"done", "panic"}

\* C5: for every point P of prime order q, every window width and every
\* scalar s with 1 <= s <= q - 1 (s = 1 and s = q - 1 included),
\* scalar_multiply completes and returns s*P.
C5_ScalarMultiplyIsMultiple ==
    (/\ SmEnded
     /\ ScalarValue(sm.scalar, sm.max_bits) \in 1..(sm.curve.order - 1))
    => /\ sm.pc = "done"
       /\ sm.curr_point = GroupMul(sm.curve, ScalarValue(sm.scalar, sm.max_bits), sm.P)

(***************************************************************************)
(* ecc/mod.rs: multi_scalar_multiply.  A run is started on k points, their *)
(* scalars (one chunk of max_bits bits each), a window width and the       *)
(* blinding point A that load_random_point draws.  The point loop, the     *)
(* table loop and the window loops are taken one iteration at a time.      *)
(***************************************************************************)
MsmCurves == {BnToy}

MsmSizes == {1, 2}

MsmShape == [max_bits |-> 2, len |-> 1]

BasePoint(cv) == CHOOSE P \in CurvePoints(cv) : TRUE

\* the points handed to an MSM: curve points and the y = 0 identity
MsmPoints(cv) == {GroupMul(cv, m, BasePoint(cv)) : m \in 0..MaxMultiple}

msm_k(r) == Len(r.P)

msm_total_bits(r) == r.max_bits * Len(r.scalars[1])

msm_num_windows(r) == (msm_total_bits(r) + r.window_bits - 1) \div r.window_bits

msm_rounded_bitlen(r) == msm_num_windows(r) * r.window_bits

msm_cache_size(r) == Pow2(r.window_bits)

\* lines 488-500: the bits of every scalar, each padded to rounded_bitlen
msm_rounded_bits(r) ==
    Flatten([i \in 1..Len(r.scalars) |->
        Flatten([j \in 1..Len(r.scalars[i]) |->
                    num_to_bits(r.scalars[i][j], r.max_bits)])
            \o [j \in 1..(msm_rounded_bitlen(r) - msm_total_bits(r)) |-> 0]])

\* chunks(size): the i-th block of a flat vector
Chunk(v, size, i) == Slice(v, size * i, size * (i + 1))

InitMsm ==
    /\ \E cv \in MsmCurves, window_bits \in 1..MaxWindowBits, k \in MsmSizes :
       \E A \in CurvePoints(cv),
          P \in [1..k -> MsmPoints(cv)],
          scalars \in [1..k -> Chunkings(MsmShape)] :
           msm = [pc |-> "start", curve |-> cv, P |-> P, scalars |-> scalars,
                  max_bits |-> MsmShape.max_bits, window_bits |-> window_bits,
                  A |-> A, rounded_bits |-> <<>>, rand_start_vec |-> <<>>,
                  cached_points |-> <<>>, start_point |-> NoPoint,
                  curr_point |-> NoPoint, idx |-> 0, pt |-> 0,
                  sat |-> TRUE, xcollision |-> FALSE, failed |-> "none"]
    /\ carry = IdleCarry
    /\ big = IdleBig
    /\ ec = IdleEc
    /\ sm = IdleSm

\* the operands of an add_unequal or sub_unequal call share their x
XCollision(P, Q) == P.x = Q.x

\* the run after a gadget call: ended by its panic, or continued with
\* `then`, the record of the state the call leads to
MsmAfter(r, P, Q, then) ==
    IF r.status = "panic"
    THEN [msm EXCEPT !.pc = "panic", !.failed = "ec_add_unequal",
                     !.xcollision = @ \/ XCollision(P, Q)]
    ELSE [then EXCEPT !.sat = @ /\ r.sat,
                      !.xcollision = @ \/ XCollision(P, Q)]

\* lines 476-507: the shape assertions, the bits and the blinding point,
\* which is_on_curve constrains
MsmBits ==
    /\ msm.pc = "start"
    /\ msm' = IF \/ msm_k(msm) # Len(msm.scalars)
                 \/ msm_k(msm) = 0
                 \/ msm.scalars[1] = <<>>
                 \/ \E i \in 1..Len(msm.scalars) :
                        Len(msm.scalars[i]) # Len(msm.scalars[1])
              THEN [msm EXCEPT !.pc = "panic", !.failed = "shape assertion"]
              ELSE [msm EXCEPT !.pc = "rand",
                               !.rounded_bits = msm_rounded_bits(msm),
                               !.rand_start_vec = <<msm.A>>,
                               !.sat = OnCurve(msm.curve, msm.A)]
    /\ UNCHANGED <<carry, big, ec, sm>>

\* lines 508-511: rand_start_vec[idx] = 2 * rand_start_vec[idx - 1]
MsmRand ==
    /\ msm.pc = "rand"
    /\ Len(msm.rand_start_vec) < msm_k(msm) + msm.window_bits
    /\ LET prev == At(msm.rand_start_vec, Len(msm.rand_start_vec) - 1)
           r == ec_double(msm.curve, prev)
       IN  msm' = [msm EXCEPT !.rand_start_vec = Append(@, r.R),
                              !.sat = @ /\ r.sat]
    /\ UNCHANGED <<carry, big, ec, sm>>

\* lines 517-532: the first table entry of point pt,
\* rand_start_vec[pt] - rand_start_vec[pt + window_bits]
MsmTableBase ==
    /\ \/ /\ msm.pc = "rand"
          /\ Len(msm.rand_start_vec) >= msm_k(msm) + msm.window_bits
       \/ /\ msm.pc = "table"
          /\ Len(msm.cached_points) = msm_cache_size(msm) * (msm.pt + 1)
          /\ msm.pt + 1 < msm_k(msm)
    /\ LET pt == IF msm.pc = "rand" THEN 0 ELSE msm.pt + 1
           P == At(msm.rand_start_vec, pt)
           Q == At(msm.rand_start_vec, pt + msm.window_bits)
           r == ec_sub_unequal(msm.curve, P, Q, FALSE)
       IN  msm' = MsmAfter(r, P, Q,
                     [msm EXCEPT !.pc = "table", !.pt = pt,
                                 !.cached_points = Append(@, r.R)])
    /\ UNCHANGED <<carry, big, ec, sm>>

\* lines 533-541: the next table entry of point pt, prev + P[pt] by a strict
\* ec_add_unequal, or prev again when P[pt] is the identity
MsmTableAdd ==
    /\ msm.pc = "table"
    /\ Len(msm.cached_points) < msm_cache_size(msm) * (msm.pt + 1)
    /\ LET point == At(msm.P, msm.pt)
           is_infinity == gate_is_zero(point.y)
           prev == At(msm.cached_points, Len(msm.cached_points) - 1)
           r == ec_add_unequal(msm.curve, prev, point, TRUE)
           new_point == ec_select(msm.curve, prev, r.R, is_infinity)
       IN  msm' = MsmAfter(r, prev, point,
                     [msm EXCEPT !.cached_points = Append(@, new_point)])
    /\ UNCHANGED <<carry, big, ec, sm>>

\* lines 544-555: the accumulator starts at
\* rand_start_vec[k] - rand_start_vec[0]
MsmStart ==
    /\ msm.pc = "table"
    /\ Len(msm.cached_points) = msm_cache_size(msm) * msm_k(msm)
    /\ LET P == At(msm.rand_start_vec, msm_k(msm))
           Q == At(msm.rand_start_vec, 0)
           r == ec_sub_unequal(msm.curve, P, Q, FALSE)
       IN  msm' = MsmAfter(r, P, Q,
                     [msm EXCEPT !.pc = "double", !.idx = 0,
                                 !.start_point = r.R, !.curr_point = r.R])
    /\ UNCHANGED <<carry, big, ec, sm>>

\* lines 559-561: window_bits doublings of the accumulator
MsmWindowDouble ==
    /\ msm.pc = "double"
    /\ msm.idx < msm_num_windows(msm)
    /\ LET d == sm_doublings(msm.curve, [R |-> msm.curr_point, sat |-> TRUE],
                             msm.window_bits)
       IN  msm' = [msm EXCEPT !.pc = "add", !.pt = 0, !.curr_point = d.R,
                              !.sat = @ /\ d.sat]
    /\ UNCHANGED <<carry, big, ec, sm>>

\* lines 562-575: the table entry of point pt for window idx is selected
\* and added to the accumulator by a strict ec_add_unequal
MsmWindowAdd ==
    /\ msm.pc = "add"
    /\ LET bits == Chunk(msm.rounded_bits, msm_rounded_bitlen(msm), msm.pt)
           sel == ec_select_from_bits(msm.curve,
                      Chunk(msm.cached_points, msm_cache_size(msm), msm.pt),
                      Slice(bits,
                            msm_rounded_bitlen(msm) - msm.window_bits * (msm.idx + 1),
                            msm_rounded_bitlen(msm) - msm.window_bits * msm.idx))
           r == ec_add_unequal(msm.curve, msm.curr_point, sel.R, TRUE)
           last == msm.pt + 1 >= msm_k(msm)
       IN  msm' = IF sel.status = "panic"
                  THEN [msm EXCEPT !.pc = "panic", !.failed = "ec_select_from_bits"]
                  ELSE MsmAfter(r, msm.curr_point, sel.R,
                          [msm EXCEPT !.curr_point = r.R,
                                      !.pt = IF last THEN 0 ELSE @ + 1,
                                      !.idx = IF last THEN @ + 1 ELSE @,
                                      !.pc = IF last THEN "double" ELSE "add"])
    /\ UNCHANGED <<carry, big, ec, sm>>

\* lines 577-579: the start point is subtracted by a strict ec_sub_unequal
MsmFinish ==
    /\ msm.pc = "double"
    /\ msm.idx >= msm_num_windows(msm)
    /\ LET r == ec_sub_unequal(msm.curve, msm.curr_point, msm.start_point, TRUE)
       IN  msm' = MsmAfter(r, msm.curr_point, msm.start_point,
                     [msm EXCEPT !.pc = "done", !.curr_point = r.R])
    /\ UNCHANGED <<carry, big, ec, sm>>

NextMsm ==
    \/ MsmBits
    \/ MsmRand
    \/ MsmTableBase
    \/ MsmTableAdd
    \/ MsmStart
    \/ MsmWindowDouble
    \/ MsmWindowAdd
    \/ MsmFinish

SpecMsm == InitMsm /\ [][NextMsm]_vars

MsmEnded == msm.pc \in {"done", "panic"}

RECURSIVE MsmSum(_, _, _, _)
MsmSum(cv, P, scalars, max_bits) ==
    IF P = <<>>
    THEN IdentityPoint
    ELSE GroupAdd(cv,
             GroupMul(cv, ScalarValue(Head(scalars), max_bits), Head(P)),
             MsmSum(cv, Tail(P), Tail(scalars), max_bits))

\* C4: for k >= 1 points, each on the curve or the y = 0 identity, and a
\* blinding point for which no x-collision arises, multi_scalar_multiply
\* returns the sum of scalar_i * P_i.
C4_MsmIsSum ==
    (MsmEnded /\ ~msm.xcollision)
    => /\ msm.pc = "done"
       /\ msm.curr_point = MsmSum(msm.curve, msm.P, msm.scalars, msm.max_bits)

\* C6: for points on the curve and scalars for which the run completes
\* without an x-collision, the witness assigned while the MSM circuit is
\* built satisfies every constraint the circuit emits.
C6_MsmWitnessSatisfies ==
    (/\ msm.pc = "done"
     /\ ~msm.xcollision
     /\ \A i \in 1..Len(msm.P) : OnCurve(msm.curve, msm.P[i]))
    => msm.sat

(***************************************************************************)
(* bigint: OverflowInteger, limbs of limb_bits bits, least significant     *)
(* first, that may be signed and larger than 2^limb_bits, with the bounds  *)
(* max_limb_size on the magnitude of a limb and max_size on the magnitude  *)
(* of the represented integer.  Limbs are taken as integers: the bounds    *)
(* are what keeps them from wrapping in the native field.                  *)
(***************************************************************************)
construct(limbs, max_limb_size, limb_bits, max_size) ==
    [limbs |-> limbs, max_limb_size |-> max_limb_size,
     limb_bits |-> limb_bits, max_size |-> max_size]

\* carry_mod.rs builds its integers without max_size
construct3(limbs, max_limb_size, limb_bits) ==
    [limbs |-> limbs, max_limb_size |-> max_limb_size, limb_bits |-> limb_bits]

RECURSIVE to_bigint(_, _)
to_bigint(limbs, limb_bits) ==
    IF limbs = <<>> THEN 0
    ELSE Head(limbs) + Pow2(limb_bits) * to_bigint(Tail(limbs), limb_bits)

\* utils: num_limbs digits of |e| in base 2^limb_bits, with the sign of e
decompose_bigint(e, num_limbs, limb_bits) ==
    [i \in 1..num_limbs |->
        (IF e < 0 THEN -1 ELSE 1)
        * ((Abs(e) \div Pow2(limb_bits * (i - 1))) % Pow2(limb_bits))]

LimbShapes ==
    {[limb_bits |-> 1, k |-> 1], [limb_bits |-> 1, k |-> 2],
     [limb_bits |-> 2, k |-> 1]}

\* the operands: every limb vector within max_limb_size, max_size being the
\* magnitude of the represented integer
OverflowInts ==
    UNION {UNION {{construct(limbs, L, sh.limb_bits,
                             Abs(to_bigint(limbs, sh.limb_bits))) :
                       limbs \in [1..sh.k -> (-L)..L]} :
                  L \in 1..MaxLimb} :
           sh \in LimbShapes}

\* integers left to overflow far beyond limb_bits, at the extremes of their
\* limbs
WideInts ==
    UNION {{construct(limbs, WideLimb, sh.limb_bits,
                      Abs(to_bigint(limbs, sh.limb_bits))) :
                limbs \in [1..sh.k -> {-WideLimb, WideLimb}]} :
           sh \in LimbShapes}

BigOperands == OverflowInts \cup WideInts

Scalars == (-2)..2

(***************************************************************************)
(* bigint/sub_no_carry.rs, negative.rs, scalar_mul_and_add_no_carry.rs.    *)
(***************************************************************************)
sub_no_carry_max_bound(a, b) ==
    LET k == Min(Len(a.limbs), Len(b.limbs))
        k_max == Max(Len(a.limbs), Len(b.limbs))
        out_limbs == [i \in 1..k_max |->
                         IF i <= k THEN a.limbs[i] - b.limbs[i]
                         ELSE IF Len(a.limbs) > k THEN a.limbs[i]
                         ELSE -b.limbs[i]]
    IN  [status |-> IF a.limb_bits = b.limb_bits THEN "ok" ELSE "panic",
         out |-> construct(out_limbs, Max(a.max_limb_size, b.max_limb_size),
                           a.limb_bits, Max(a.max_size, b.max_size))]

sub_no_carry(a, b) ==
    LET k == Min(Len(a.limbs), Len(b.limbs))
        k_max == Max(Len(a.limbs), Len(b.limbs))
        out_limbs == [i \in 1..k_max |->
                         IF i <= k THEN a.limbs[i] - b.limbs[i]
                         ELSE IF Len(a.limbs) > k THEN a.limbs[i]
                         ELSE -b.limbs[i]]
    IN  [status |-> IF a.limb_bits = b.limb_bits THEN "ok" ELSE "panic",
         out |-> construct(out_limbs, a.max_limb_size + b.max_limb_size,
                           a.limb_bits, a.max_size + b.max_size)]

negative(a) ==
    [status |-> "ok",
     out |-> construct([i \in 1..Len(a.limbs) |-> -a.limbs[i]],
                       a.max_limb_size, a.limb_bits, a.max_size)]

scalar_mul_and_add_no_carry(a, b, c) ==
    LET k_max == Max(Len(a.limbs), Len(b.limbs))
        out_limbs == [i \in 1..k_max |->
                         IF i <= Len(a.limbs) /\ i <= Len(b.limbs)
                         THEN b.limbs[i] + a.limbs[i] * c
                         ELSE IF i <= Len(a.limbs) THEN a.limbs[i] * c
                         ELSE b.limbs[i]]
        c_abs == Abs(c)
    IN  [status |-> IF a.limb_bits = b.limb_bits THEN "ok" ELSE "panic",
         out |-> construct(out_limbs, a.max_limb_size * c_abs + b.max_limb_size,
                           a.limb_bits, a.max_size * c_abs + b.max_size)]

(***************************************************************************)
(* bigint/carry_mod.rs: assign.  out and quotient are witnessed from       *)
(* get_carry_witness; the limbs of out are range-checked to limb_bits      *)
(* bits, those of quotient to [-2^limb_bits, 2^limb_bits), and the check   *)
(* integer out - a + modulus * quotient is handed to check_carry_to_zero.  *)
(* The integer returned carries the limb bound 2^limb_bits - 1.            *)
(***************************************************************************)
\* line 30 without the rounding up
carry_mod_m_rounded_down(a, modulus) ==
    (Bits(a.max_limb_size) + a.limb_bits * Len(a.limbs) - Bits(modulus))
        \div a.limb_bits

\* line 30
carry_mod_m(a, modulus) ==
    (Bits(a.max_limb_size) + a.limb_bits * Len(a.limbs) - Bits(modulus)
        + a.limb_bits) \div a.limb_bits

\* lines 49-50
carry_mod_mod_overflow(a, m) ==
    Max(Bits((a.max_limb_size \div Pow2(a.limb_bits)) \div m), a.limb_bits)

\* lines 52-59: the limbs of modulus, each of mod_overflow bits
RECURSIVE carry_mod_mod_vec(_, _, _)
carry_mod_mod_vec(temp_mod, mod_overflow, n) ==
    IF temp_mod = 0 THEN <<>>
    ELSE LET limb == temp_mod % Pow2(mod_overflow)
         IN  <<limb>> \o carry_mod_mod_vec((temp_mod - limb) \div Pow2(n),
                                           mod_overflow, n)

\* lines 88-121: limb i of mul_no_carry(modulus, quotient)
carry_mod_prod(mod_vec, quotient_vec, m, i) ==
    LET startj == IF i >= m THEN i - m + 1 ELSE 0
    IN  SeqSum([jj \in 1..(Min(i, Len(mod_vec) - 1) - startj + 1) |->
                   At(mod_vec, startj + jj - 1)
                   * At(quotient_vec, i - (startj + jj - 1))])

\* lines 82-169: the limbs of out - a + modulus * quotient
carry_mod_check(a, mod_vec, quotient_vec, out_vec, m) ==
    [ii \in 1..(Len(mod_vec) + m - 1) |->
        IF ii - 1 < Len(a.limbs)
        THEN carry_mod_prod(mod_vec, quotient_vec, m, ii - 1)
                 - a.limbs[ii] + out_vec[ii]
        ELSE carry_mod_prod(mod_vec, quotient_vec, m, ii - 1)]

\* line 176: range_check(out_cell, n)
carry_mod_out_bits_wide(n) == n + 1

carry_mod_out_bits(n) == n

\* lines 173-177: the limb vectors the range checks on out let through
carry_mod_out_range(a) ==
    [1..Len(a.limbs) -> 0..(Pow2(carry_mod_out_bits(a.limb_bits)) - 1)]

\* lines 179-205: quot + 2^n is range-checked to n + 1 bits
carry_mod_quot_range(a, m) ==
    [1..m -> (-Pow2(a.limb_bits))..(Pow2(a.limb_bits + 1) - 1 - Pow2(a.limb_bits))]

\* lines 207-213: the limb bound recorded on the check integer
carry_mod_check_bound(a, mod_vec, m, mod_overflow) ==
    (Pow2(a.limb_bits) - 1) + a.max_limb_size
        + Min(Len(mod_vec), m) * Pow2(mod_overflow + a.limb_bits)

\* check_carry_to_zero: the integer is zero, over the integers
check_carry_to_zero(check) == to_bigint(check.limbs, check.limb_bits) = 0

carry_mod(a, modulus) ==
    LET n == a.limb_bits
        k == Len(a.limbs)
        m == carry_mod_m(a, modulus)
        w == get_carry_witness(to_bigint(a.limbs, n), modulus)
        out_vec == decompose_bigint(w.out, k, n)
        quotient_vec == decompose_bigint(w.quotient, m, n)
        mod_overflow == carry_mod_mod_overflow(a, m)
        mod_vec == carry_mod_mod_vec(modulus, mod_overflow, n)
        k_prod == Len(mod_vec) + m - 1
        bound == carry_mod_check_bound(a, mod_vec, m, mod_overflow)
        check(quot, out) ==
            construct3(carry_mod_check(a, mod_vec, quot, out, m), bound, n)
    IN  IF k <= 0 \/ m <= 0
        THEN [status |-> "panic"]
        ELSE IF k_prod < k
        THEN [status |-> "panic"]
        ELSE [status |-> "ok", m |-> m, mod_overflow |-> mod_overflow,
              mod_vec |-> mod_vec, out_vec |-> out_vec,
              quotient_vec |-> quotient_vec,
              check |-> check(quotient_vec, out_vec),
              sat |-> /\ out_vec \in carry_mod_out_range(a)
                      /\ quotient_vec \in carry_mod_quot_range(a, m)
                      /\ check_carry_to_zero(check(quotient_vec, out_vec)),
              accepted |-> {out \in carry_mod_out_range(a) :
                               \E quot \in carry_mod_quot_range(a, m) :
                                   check_carry_to_zero(check(quot, out))},
              out |-> construct3(out_vec, Pow2(n) - 1, n)]

\* the moduli carry_mod is called with fit the limbs of a
Moduli(a) == 1..(Pow2(a.limb_bits * Len(a.limbs)) - 1)

(***************************************************************************)
(* One call of a bigint gadget.                                            *)
(***************************************************************************)
InitBig ==
    /\ big = [pc |-> "start"]
    /\ carry = IdleCarry
    /\ ec = IdleEc
    /\ sm = IdleSm
    /\ msm = IdleMsm

BigSubNoCarry ==
    /\ big.pc = "start"
    /\ \E a \in BigOperands, b \in BigOperands :
           big' = [pc |-> "done", op |-> "sub_no_carry", a |-> a, b |-> b,
                   c |-> 0, modulus |-> 0] @@ sub_no_carry(a, b)
    /\ UNCHANGED <<carry, ec, sm, msm>>

BigNegative ==
    /\ big.pc = "start"
    /\ \E a \in BigOperands :
           big' = [pc |-> "done", op |-> "negative", a |-> a, b |-> a,
                   c |-> 0, modulus |-> 0] @@ negative(a)
    /\ UNCHANGED <<carry, ec, sm, msm>>

BigScalarMulAndAdd ==
    /\ big.pc = "start"
    /\ \E a \in BigOperands, b \in BigOperands, c \in Scalars :
           big' = [pc |-> "done", op |-> "scalar_mul_and_add_no_carry",
                   a |-> a, b |-> b, c |-> c, modulus |-> 0]
                  @@ scalar_mul_and_add_no_carry(a, b, c)
    /\ UNCHANGED <<carry, ec, sm, msm>>

BigCarryMod ==
    /\ big.pc = "start"
    /\ \E a \in BigOperands :
       \E modulus \in Moduli(a) :
           big' = [pc |-> "done", op |-> "carry_mod", a |-> a, b |-> a,
                   c |-> 0, modulus |-> modulus] @@ carry_mod(a, modulus)
    /\ UNCHANGED <<carry, ec, sm, msm>>

NextBig ==
    \/ BigSubNoCarry
    \/ BigNegative
    \/ BigScalarMulAndAdd
    \/ BigCarryMod

SpecBig == InitBig /\ [][NextBig]_vars

BigDone(op) == big.pc = "done" /\ big.op = op /\ big.status = "ok"

\* the largest integer that limbs within max_limb_size represent: the bound
\* that an integer built without max_size puts on its value
RecordedBound(x) ==
    to_bigint([i \in 1..Len(x.limbs) |-> x.max_limb_size], x.limb_bits)

LimbsCanonical(limbs, limb_bits) ==
    \A i \in 1..Len(limbs) : limbs[i] \in 0..(Pow2(limb_bits) - 1)

\* C7 as stated: the integer returned by carry_mod is canonical: each of its
\* limbs is constrained to [0, 2^n), and the bound recorded on it is
\* strictly below the modulus.
C7_CarryModCanonical ==
    BigDone("carry_mod")
    => /\ \A out \in big.accepted : LimbsCanonical(out, big.a.limb_bits)
       /\ RecordedBound(big.out) < big.modulus

\* C7 as amended: each limb of the integer returned by carry_mod is
\* constrained to [0, 2^n), the bound recorded on it is the limb bound
\* 2^n - 1, and the witness assigned to it is a mod modulus, in
\* [0, modulus); the constraints leave the integer itself free to be any
\* k-limb representative of a modulo the modulus.
C7_CarryModLimbsCanonical ==
    BigDone("carry_mod")
    => /\ \A out \in big.accepted : LimbsCanonical(out, big.a.limb_bits)
       /\ big.out.max_limb_size = Pow2(big.a.limb_bits) - 1
       /\ big.out.limbs \in big.accepted
       /\ to_bigint(big.out.limbs, big.a.limb_bits) \in 0..(big.modulus - 1)
       /\ (to_bigint(big.a.limbs, big.a.limb_bits)
              - to_bigint(big.out.limbs, big.a.limb_bits)) % big.modulus = 0

\* carry_mod accepts a representative that is not below the modulus
C7_Witness ==
    /\ BigDone("carry_mod")
    /\ big.modulus > 1
    /\ \E out \in big.accepted :
           to_bigint(out, big.a.limb_bits) >= big.modulus
    /\ to_bigint(big.a.limbs, big.a.limb_bits) < 0

LimbsWithin(x) ==
    \A i \in 1..Len(x.limbs) : Abs(x.limbs[i]) <= x.max_limb_size

\* C8: for operand limbs within the operands' max_limb_size, and quotient
\* limbs within their range check, every limb of the result of
\* sub_no_carry, negate and scalar_mul_and_add_no_carry, and of the check
\* integer of carry_mod, has magnitude at most the max_limb_size recorded on
\* it, and the integer a no-carry result represents has magnitude at most
\* its max_size; the bounds of sub_no_carry are the sums of the operands'.
C8_BoundsCoverMagnitudes ==
    /\ (\E op \in {"sub_no_carry", "negative", "scalar_mul_and_add_no_carry"} :
            BigDone(op))
       => /\ LimbsWithin(big.out)
          /\ Abs(to_bigint(big.out.limbs, big.out.limb_bits)) <= big.out.max_size
    /\ BigDone("sub_no_carry")
       => /\ big.out.max_limb_size = big.a.max_limb_size + big.b.max_limb_size
          /\ big.out.max_size = big.a.max_size + big.b.max_size
          /\ to_bigint(big.out.limbs, big.out.limb_bits)
                 = to_bigint(big.a.limbs, big.a.limb_bits)
                       - to_bigint(big.b.limbs, big.b.limb_bits)
    /\ BigDone("carry_mod")
       => \A quot \in carry_mod_quot_range(big.a, big.m),
             out \in carry_mod_out_range(big.a) :
              LimbsWithin(construct3(
                  carry_mod_check(big.a, big.mod_vec, quot, out, big.m),
                  big.check.max_limb_size, big.a.limb_bits))

\* a subtraction of operands of different lengths whose first limb and
\* whose value both reach the recorded bounds
C8_Witness ==
    /\ BigDone("sub_no_carry")
    /\ Len(big.a.limbs) # Len(big.b.limbs)
    /\ Abs(big.out.limbs[1]) = big.out.max_limb_size
    /\ Abs(to_bigint(big.out.limbs, big.out.limb_bits)) = big.out.max_size
    /\ big.a.max_size > 0
    /\ big.b.max_size > 0

\* C11: in every run of scalar_multiply on a point of prime order q,
\* q > 2^w + 1, with a scalar in [0, q), every call of ec_add_unequal, in
\* the table and in each window, gets two points of the curve with
\* different x.
C11_AddUnequalOperandsDistinct ==
    (/\ sm.pc \notin {"idle", "start"}
     /\ ScalarValue(sm.scalar, sm.max_bits) < sm.curve.order
     /\ sm.curve.order > Pow2(sm.window_bits) + 1)
    => \A call \in sm.adds :
           /\ OnCurve(sm.curve, call[1])
           /\ OnCurve(sm.curve, call[2])
           /\ call[1].x # call[2].x

\* C12: multi_scalar_multiply starts its accumulator at (2^(k+1) - 1) * A,
\* k the number of points and A the blinding point.
C12_MsmStartPoint ==
    (msm.pc \in {"double", "add", "done"} /\ KnownPoint(msm.start_point))
    => msm.start_point
           = GroupMul(msm.curve, Pow2(msm_k(msm) + 1) - 1, msm.A)

\* the multiple of A that table index idx of cached_points is blinded with,
\* and the multiple of its point that it holds
MsmTableEntry(r, idx) ==
    LET i == idx \div msm_cache_size(r)
        j == idx % msm_cache_size(r)
    IN  GroupAdd(r.curve,
            GroupMul(r.curve,
                     ((1 - Pow2(r.window_bits)) * Pow2(i)) % r.curve.order, r.A),
            GroupMul(r.curve, j, At(r.P, i)))

VbmSizes == {1, 25, 26}

variable_base_msm_callee_strict(len) ==
    IF len < 25 THEN "multi_scalar_multiply" ELSE "pippenger::multi_exp"

\* lines 870-897
variable_base_msm_callee(len) ==
    IF len <= 25 THEN "multi_scalar_multiply" ELSE "pippenger::multi_exp"

\* batches of k copies of one point with one scalar
InitVbm ==
    /\ \E cv \in MsmCurves, window_bits \in 1..MaxWindowBits, k \in VbmSizes :
       \E A \in CurvePoints(cv), point \in MsmPoints(cv),
          chunks \in Chunkings(MsmShape) :
           msm = [pc |-> "call", curve |-> cv, P |-> [i \in 1..k |-> point],
                  scalars |-> [i \in 1..k |-> chunks],
                  max_bits |-> MsmShape.max_bits, window_bits |-> window_bits,
                  A |-> A, rounded_bits |-> <<>>, rand_start_vec |-> <<>>,
                  cached_points |-> <<>>, start_point |-> NoPoint,
                  curr_point |-> NoPoint, idx |-> 0, pt |-> 0,
                  sat |-> TRUE, xcollision |-> FALSE, failed |-> "none",
                  callee |-> "none", radix |-> 0]
    /\ carry = IdleCarry
    /\ big = IdleBig
    /\ ec = IdleEc
    /\ sm = IdleSm

VariableBaseMsm ==
    /\ msm.pc = "call"
    /\ LET callee == variable_base_msm_callee(Len(msm.P))
       IN  msm' = IF callee = "multi_scalar_multiply"
                  THEN [msm EXCEPT !.pc = "start", !.callee = callee]
                  ELSE [msm EXCEPT !.pc = "pippenger", !.callee = callee,
                                   !.radix = 1]
    /\ UNCHANGED <<carry, big, ec, sm>>

NextVbm == VariableBaseMsm \/ NextMsm

SpecVbm == InitVbm /\ [][NextVbm]_vars

VbmCalled == msm.pc \notin {"idle", "call"}

\* the run has loaded a blinding point
VbmBlinded == msm.rand_start_vec # <<>>

\* C14 as stated: variable_base_msm takes the direct path, without a
\* blinding point, for at most 25 points, and the blinded path for more.
C14_DirectPathUpTo25 ==
    VbmCalled
    => /\ Len(msm.P) <= 25 => ~VbmBlinded
       /\ Len(msm.P) > 25 => msm.callee = "pippenger::multi_exp"

\* C14 as amended: variable_base_msm calls multi_scalar_multiply, which
\* loads a blinding point, for at most 25 points, and pippenger::multi_exp
\* with radix 1 for more than 25 points.
C14_MsmUpTo25 ==
    VbmCalled
    => /\ Len(msm.P) <= 25
          => /\ msm.callee = "multi_scalar_multiply"
             /\ msm.pc # "pippenger"
             /\ msm.pc \notin {"start", "panic"}
                => VbmBlinded /\ msm.rand_start_vec[1] = msm.A
       /\ Len(msm.P) > 25
          => /\ msm.callee = "pippenger::multi_exp"
             /\ msm.pc = "pippenger"
             /\ msm.radix = 1

\* a batch of exactly 25 points is in multi_scalar_multiply, past the load
\* of its blinding point
C14_Witness ==
    /\ VbmCalled
    /\ Len(msm.P) = 25
    /\ msm.callee = "multi_scalar_multiply"
    /\ msm.pc = "table"
    /\ VbmBlinded

\* C15: for every curve point P with P.y # 0, the point ec_double returns
\* satisfies the constraints ec_double emits, and it is 2P: slope =
\* 3 Px^2 / (2 Py), x3 = slope^2 - 2 Px, y3 = slope (Px - x3) - Py modulo p.
C15_DoubleIsTwoP ==
    (/\ EcDone("double")
     /\ ec.known
     /\ OnCurve(ec.curve, ec.P)
     /\ ec.P.y # 0)
    => /\ ec.status = "ok"
       /\ ec.sat
       /\ ec.R \in ec.accepted
       /\ ec.R = AffineDouble(ec.curve, ec.P)
       /\ OnCurve(ec.curve, ec.R)

C15_Witness ==
    /\ EcDone("double")
    /\ ec.known
    /\ ec.curve = OtherToy
    /\ OnCurve(ec.curve, ec.P)
    /\ ec.R \notin {ec.P, AffineNeg(ec.curve, ec.P)}
    /\ ec.sat

\* C16: for every a and every b not 0 modulo p, every quotient that
\* satisfies the constraints of divide(a, b) has quot * b = a modulo p,
\* every one that satisfies those of neg_divide(a, b) has quot * b = -a
\* modulo p, and the witnessed a / b and -a / b satisfy them.  The operands
\* a and b are the coordinates of ec.P and the quotient is ec.R.x.
C16_DivideConstrainsQuotient ==
    (/\ EcDone("divide") \/ EcDone("neg_divide")
     /\ ec.known
     /\ ec.P.y % ec.curve.p # 0)
    => LET a == ec.P.x
           b == ec.P.y
           target == IF ec.op = "divide" THEN a % ec.curve.p
                     ELSE (0 - a) % ec.curve.p
       IN  /\ \A R \in ec.accepted : (R.x * b) % ec.curve.p = target
           /\ ec.R \in ec.accepted
           /\ ec.sat
           /\ ec.R.x = (target * FInv(ec.curve, b % ec.curve.p)) % ec.curve.p

C16_Witness ==
    /\ EcDone("neg_divide")
    /\ ec.known
    /\ ec.P.x # 0
    /\ ec.P.y > 1
    /\ ec.sat
    /\ (ec.R.x * ec.P.y) % ec.curve.p # ec.P.x

(***************************************************************************)
(* bigint: CRTInteger, an OverflowInteger (truncation) together with the   *)
(* residue of the integer in the native field and, on a pass with          *)
(* witnesses, the integer itself (value).  The native field is modelled by *)
(* a toy prime.                                                            *)
(***************************************************************************)
NativeField == [modulus |-> 11]

CRTInteger(truncation, native, value) ==
    [truncation |-> truncation, native |-> native, value |-> value]

\* utils: the signed integer a field element stands for
fe_to_bigint(x) ==
    IF x > NativeField.modulus \div 2 THEN x - NativeField.modulus ELSE x

\* the field element of a small signed integer
bigint_to_fe(c) == c % NativeField.modulus

\* value = limbs modulo 2^(n k) and value = native modulo the native modulus
CrtInvariant(x) ==
    LET n == x.truncation.limb_bits
        k == Len(x.truncation.limbs)
    IN  /\ (x.value - to_bigint(x.truncation.limbs, n)) % Pow2(n * k) = 0
        /\ (x.value - x.native) % NativeField.modulus = 0
        /\ x.native \in 0..(NativeField.modulus - 1)

\* operands that satisfy the invariant: limbs within MaxLimb, and a value
\* that is the limb value or off it by 2^(n k)
CrtOperands ==
    UNION {{CRTInteger(t, (to_bigint(t.limbs, t.limb_bits)
                              + off * Pow2(t.limb_bits * Len(t.limbs)))
                             % NativeField.modulus,
                       to_bigint(t.limbs, t.limb_bits)
                           + off * Pow2(t.limb_bits * Len(t.limbs))) :
                off \in {-1, 0, 1}} :
           t \in {x \in OverflowInts : x.max_limb_size = MaxLimb}}

\* sub_no_carry.rs, lines 40-51
sub_no_carry_crt_native_sum(a, b) ==
    IF Len(a.truncation.limbs) # Len(b.truncation.limbs)
    THEN [status |-> "panic"]
    ELSE LET out_trunc == sub_no_carry(a.truncation, b.truncation)
         IN  IF out_trunc.status = "panic"
             THEN [status |-> "panic"]
             ELSE [status |-> "ok",
                   out |-> CRTInteger(out_trunc.out,
                              (a.native + b.native) % NativeField.modulus,
                              a.value - b.value)]

sub_no_carry_crt(a, b) ==
    IF Len(a.truncation.limbs) # Len(b.truncation.limbs)
    THEN [status |-> "panic"]
    ELSE LET out_trunc == sub_no_carry(a.truncation, b.truncation)
         IN  IF out_trunc.status = "panic"
             THEN [status |-> "panic"]
             ELSE [status |-> "ok",
                   out |-> CRTInteger(out_trunc.out,
                              (a.native - b.native) % NativeField.modulus,
                              a.value - b.value)]

\* scalar_mul_and_add_no_carry.rs, lines 60-82 without the assertion of
\* line 67
scalar_mul_and_add_no_carry_crt_unchecked(a, b, c) ==
    LET out_trunc == scalar_mul_and_add_no_carry(a.truncation, b.truncation,
                                                 fe_to_bigint(c))
    IN  IF out_trunc.status = "panic"
        THEN [status |-> "panic"]
        ELSE [status |-> "ok",
              out |-> CRTInteger(out_trunc.out,
                         (b.native + a.native * c) % NativeField.modulus,
                         a.value * fe_to_bigint(c) + b.value)]

\* scalar_mul_and_add_no_carry.rs, lines 60-82; c is the field element
scalar_mul_and_add_no_carry_crt(a, b, c) ==
    IF Len(a.truncation.limbs) # Len(b.truncation.limbs)
    THEN [status |-> "panic"]
    ELSE LET out_trunc == scalar_mul_and_add_no_carry(a.truncation,
                              b.truncation, fe_to_bigint(c))
         IN  IF out_trunc.status = "panic"
             THEN [status |-> "panic"]
             ELSE [status |-> "ok",
                   out |-> CRTInteger(out_trunc.out,
                              (b.native + a.native * c) % NativeField.modulus,
                              a.value * fe_to_bigint(c) + b.value)]

InitCrt ==
    /\ big = [pc |-> "start"]
    /\ carry = IdleCarry
    /\ ec = IdleEc
    /\ sm = IdleSm
    /\ msm = IdleMsm

CrtSubNoCarry ==
    /\ big.pc = "start"
    /\ \E a \in CrtOperands, b \in CrtOperands :
           big' = [pc |-> "done", op |-> "sub_no_carry::crt", a |-> a,
                   b |-> b, c |-> 0] @@ sub_no_carry_crt(a, b)
    /\ UNCHANGED <<carry, ec, sm, msm>>

CrtScalarMulAndAdd ==
    /\ big.pc = "start"
    /\ \E a \in CrtOperands, b \in CrtOperands, c \in Scalars :
           big' = [pc |-> "done", op |-> "scalar_mul_and_add_no_carry::crt",
                   a |-> a, b |-> b, c |-> bigint_to_fe(c)]
                  @@ scalar_mul_and_add_no_carry_crt(a, b, bigint_to_fe(c))
    /\ UNCHANGED <<carry, ec, sm, msm>>

NextCrt == CrtSubNoCarry \/ CrtScalarMulAndAdd

SpecCrt == InitCrt /\ [][NextCrt]_vars

\* C17: if a and b satisfy the CRT invariant, so do the results of
\* sub_no_carry::crt, of value a - b, and of
\* scalar_mul_and_add_no_carry::crt, of value a * c + b.
C17_CrtInvariantPreserved ==
    (/\ big.pc = "done"
     /\ big.status = "ok"
     /\ CrtInvariant(big.a)
     /\ CrtInvariant(big.b))
    => /\ CrtInvariant(big.out)
       /\ big.op = "sub_no_carry::crt"
          => big.out.value = big.a.value - big.b.value
       /\ big.op = "scalar_mul_and_add_no_carry::crt"
          => big.out.value = big.a.value * fe_to_bigint(big.c) + big.b.value

\* a subtraction of operands whose values are off their limbs, with a
\* negative result
C17_Witness ==
    /\ big.pc = "done"
    /\ big.status = "ok"
    /\ big.op = "sub_no_carry::crt"
    /\ big.a.value # to_bigint(big.a.truncation.limbs, big.a.truncation.limb_bits)
    /\ big.b.native > big.a.native
    /\ big.out.value < 0
    /\ CrtInvariant(big.out)

\* C18: for every a whose limbs are within a.max_limb_size and every
\* modulus below 2^(n k), the k limbs carry_mod witnesses for out are each in
\* [0, 2^n) and recompose exactly to a mod modulus, the non-negative
\* remainder.
C18_CarryModWitnessIsRemainder ==
    (BigDone("carry_mod") /\ LimbsWithin(big.a)
        /\ big.modulus < Pow2(big.a.limb_bits * Len(big.a.limbs)))
    => /\ Len(big.out_vec) = Len(big.a.limbs)
       /\ LimbsCanonical(big.out_vec, big.a.limb_bits)
       /\ to_bigint(big.out_vec, big.a.limb_bits)
              = to_bigint(big.a.limbs, big.a.limb_bits) % big.modulus

\* a negative two-limb a that the modulus does not divide, with a remainder
\* that needs both limbs
C18_Witness ==
    /\ BigDone("carry_mod")
    /\ LimbsWithin(big.a)
    /\ Len(big.a.limbs) = 2
    /\ to_bigint(big.a.limbs, big.a.limb_bits) < 0
    /\ big.out_vec[2] # 0
    /\ to_bigint(big.out_vec, big.a.limb_bits)
           = to_bigint(big.a.limbs, big.a.limb_bits) % big.modulus

(***************************************************************************)
(* carry_mod, the layout: the regions, gate enablings, cells and range     *)
(* checks carry_mod appends, in the order of the code, on a pass with      *)
(* witness values and on a pass without.  An optional value is <<v>> when  *)
(* known and <<>> when not.                                                *)
(***************************************************************************)
Some(v) == <<v>>

None == <<>>

\* Option::zip followed by map
OptAdd(x, y) == IF x = None \/ y = None THEN None ELSE Some(x[1] + y[1])

OptSub(x, y) == IF x = None \/ y = None THEN None ELSE Some(x[1] - y[1])

OptScale(c, x) == IF x = None THEN None ELSE Some(c * x[1])

Ev(ev, kind, num, value) ==
    [ev |-> ev, kind |-> kind, num |-> num, value |-> value]

Enable(offset) == Ev("enable", "", offset, None)

Cell(kind, value) == Ev("cell", kind, 0, value)

RangeCheck(bits) == Ev("range_check", "", bits, None)

Region(i) == Ev("region", "", i, None)

\* lines 33-43: the witness vectors, known or not
carry_mod_witness_vecs(a, modulus, known, m) ==
    IF known
    THEN LET w == get_carry_witness(to_bigint(a.limbs, a.limb_bits), modulus)
             out == decompose_bigint(w.out, Len(a.limbs), a.limb_bits)
             quot == decompose_bigint(w.quotient, m, a.limb_bits)
         IN  [out_vec |-> [i \in 1..Len(a.limbs) |-> Some(out[i])],
              quotient_vec |-> [i \in 1..m |-> Some(quot[i])]]
    ELSE [out_vec |-> [i \in 1..Len(a.limbs) |-> None],
          quotient_vec |-> [i \in 1..m |-> None]]

\* lines 112-115: prod_val after the iterations startj..j of region i
RECURSIVE carry_mod_prod_val(_, _, _, _, _)
carry_mod_prod_val(mod_vec, quotient_vec, i, startj, j) ==
    IF j < startj THEN Some(0)
    ELSE OptAdd(carry_mod_prod_val(mod_vec, quotient_vec, i, startj, j - 1),
                OptScale(At(mod_vec, j), At(quotient_vec, i - j)))

\* lines 96-116 with the cells of a zero quotient limb left out
carry_mod_prod_cells_skip_zero(mod_vec, quotient_vec, m, i, startj, j) ==
    IF At(quotient_vec, i - j) = Some(0)
    THEN <<>>
    ELSE <<Cell("Constant", Some(At(mod_vec, j))),
           Cell("Witness", At(quotient_vec, i - j)),
           Cell("Witness",
                carry_mod_prod_val(mod_vec, quotient_vec, i, startj, j))>>

\* lines 96-116: the three cells iteration j of region i pushes; mod_assigned
\* holds Min(i, mod_vec.len()) cells and quot_assigned Min(i, m)
carry_mod_prod_cells(mod_vec, quotient_vec, m, i, startj, j) ==
    <<IF j < Min(i, Len(mod_vec))
      THEN Cell("Existing", Some(At(mod_vec, j)))
      ELSE Cell("Constant", Some(At(mod_vec, j))),
      IF i - j < Min(i, m)
      THEN Cell("Existing", At(quotient_vec, i - j))
      ELSE Cell("Witness", At(quotient_vec, i - j)),
      Cell("Witness", carry_mod_prod_val(mod_vec, quotient_vec, i, startj, j))>>

\* lines 81-165: region carry_mod_i
carry_mod_region(a, known, mod_vec, vecs, m, i) ==
    LET k == Len(a.limbs)
        startj == IF i >= m THEN i - m + 1 ELSE 0
        lastj == Min(i, Len(mod_vec) - 1)
        iters == IF lastj < startj THEN 0 ELSE lastj - startj + 1
        offset == 3 * iters
        prod_val == carry_mod_prod_val(mod_vec, vecs.quotient_vec, i,
                                       startj, lastj)
        a_limb == IF known /\ i < k THEN Some(At(a.limbs, i)) ELSE None
        temp1 == OptSub(prod_val, a_limb)
        check_val == OptAdd(temp1, At(vecs.out_vec, i))
    IN  <<Region(i)>>
        \o [jj \in 1..iters |-> Enable(3 * (jj - 1))]
        \o <<Cell("Constant", Some(0))>>
        \o Flatten([jj \in 1..iters |->
               carry_mod_prod_cells(mod_vec, vecs.quotient_vec, m, i, startj,
                                    startj + jj - 1)])
        \o (IF i < k
            THEN <<Enable(offset), Enable(offset + 3),
                   Cell("Constant", Some(-1)), Cell("Existing", a_limb),
                   Cell("Witness", temp1), Cell("Constant", Some(1)),
                   Cell("Witness", At(vecs.out_vec, i)),
                   Cell("Witness", check_val)>>
            ELSE <<>>)

\* lines 171-205: the range checks on out and on quot + 2^n
carry_mod_range_checks(a, vecs, m) ==
    LET n == a.limb_bits
    IN  [i \in 1..Len(a.limbs) |-> RangeCheck(n)]
        \o Flatten([i \in 1..m |->
               <<Region(i - 1), Enable(0),
                 Cell("Existing", vecs.quotient_vec[i]),
                 Cell("Constant", Some(Pow2(n))),
                 Cell("Constant", Some(1)),
                 Cell("Witness",
                      OptAdd(vecs.quotient_vec[i], Some(Pow2(n)))),
                 RangeCheck(n + 1)>>])

\* lines 16-222: everything carry_mod appends; the call of check_carry_to_zero
\* is recorded with the limb count, limb bound and limb width it is given
carry_mod_layout(a, modulus, known) ==
    LET n == a.limb_bits
        k == Len(a.limbs)
        m == carry_mod_m(a, modulus)
        vecs == carry_mod_witness_vecs(a, modulus, known, m)
        mod_overflow == carry_mod_mod_overflow(a, m)
        mod_vec == carry_mod_mod_vec(modulus, mod_overflow, n)
        k_prod == Len(mod_vec) + m - 1
    IN  IF k <= 0 \/ m <= 0 \/ k_prod < k
        THEN [status |-> "panic", events |-> <<>>]
        ELSE [status |-> "ok",
              events |->
                  Flatten([ii \in 1..k_prod |->
                      carry_mod_region(a, known, mod_vec, vecs, m, ii - 1)])
                  \o carry_mod_range_checks(a, vecs, m)
                  \o <<Ev("check_carry_to_zero", "", k_prod,
                          Some(carry_mod_check_bound(a, mod_vec, m,
                                                     mod_overflow)))>>]

InitLayout ==
    /\ big = [pc |-> "start"]
    /\ carry = IdleCarry
    /\ ec = IdleEc
    /\ sm = IdleSm
    /\ msm = IdleMsm

\* one call of carry_mod, on a pass with witness values or without
CarryModLayout ==
    /\ big.pc = "start"
    /\ \E a \in BigOperands :
       \E modulus \in Moduli(a) :
       \E known \in BOOLEAN :
           big' = [pc |-> "done", op |-> "carry_mod", a |-> a,
                   modulus |-> modulus, known |-> known]
                  @@ carry_mod_layout(a, modulus, known)
    /\ UNCHANGED <<carry, ec, sm, msm>>

NextLayout == CarryModLayout

SpecLayout == InitLayout /\ [][NextLayout]_vars

\* what is appended, without the values of the cells
Shape(events) ==
    [i \in 1..Len(events) |->
        IF events[i].ev = "cell"
        THEN [events[i] EXCEPT !.value = None]
        ELSE events[i]]

SameParameters(a1, a2) ==
    /\ a1.limb_bits = a2.limb_bits
    /\ Len(a1.limbs) = Len(a2.limbs)
    /\ a1.max_limb_size = a2.max_limb_size

\* C19: the number and order of the cells, gate enablings and range checks
\* carry_mod appends depend only on n, k, a.max_limb_size and the modulus:
\* any other a with these parameters, with its witness values known or not,
\* gives the same layout.
C19_CarryModShapeFixed ==
    big.pc = "done"
    => \A a2 \in BigOperands :
       \A known2 \in BOOLEAN :
           SameParameters(big.a, a2)
           => LET other == carry_mod_layout(a2, big.modulus, known2)
              IN  /\ other.status = big.status
                  /\ Shape(other.events) = Shape(big.events)

\* a pass without witness values over a two-limb a, and a pass with witness
\* values over another a of the same parameters that assigns other values
C19_Witness ==
    /\ big.pc = "done"
    /\ big.status = "ok"
    /\ ~big.known
    /\ Len(big.a.limbs) = 2
    /\ \E e \in 1..Len(big.events) : big.events[e].ev = "range_check"
    /\ \E a2 \in BigOperands :
           /\ SameParameters(big.a, a2)
           /\ a2.limbs # big.a.limbs
           /\ carry_mod_layout(a2, big.modulus, TRUE).events # big.events
           /\ Shape(carry_mod_layout(a2, big.modulus, TRUE).events)
                  = Shape(big.events)

(***************************************************************************)
(* The gadgets on inputs of every shape: scalar_multiply with and without  *)
(* chunks, multi_scalar_multiply with zero to two points and zero to two   *)
(* scalars of zero to two chunks, the CRT combinators on operands of equal *)
(* and different limb counts, and ec_select_from_bits on tables and        *)
(* selectors of every small size.                                          *)
(***************************************************************************)
\* the scalars handed to multi_scalar_multiply: no chunk, one chunk, two
ShapeScalars == Chunkings(MsmShape) \cup {<<>>, <<1, 2>>}

InitMsmShapes ==
    /\ \E cv \in MsmCurves, window_bits \in 1..MaxWindowBits :
       \E kp \in 0..2, ks \in 0..2 :
       \E A \in CurvePoints(cv),
          P \in [1..kp -> {BasePoint(cv)}],
          scalars \in [1..ks -> ShapeScalars] :
           msm = [pc |-> "start", curve |-> cv, P |-> P, scalars |-> scalars,
                  max_bits |-> MsmShape.max_bits, window_bits |-> window_bits,
                  A |-> A, rounded_bits |-> <<>>, rand_start_vec |-> <<>>,
                  cached_points |-> <<>>, start_point |-> NoPoint,
                  curr_point |-> NoPoint, idx |-> 0, pt |-> 0,
                  sat |-> TRUE, xcollision |-> FALSE, failed |-> "none"]
    /\ carry = IdleCarry
    /\ big = IdleBig
    /\ ec = IdleEc
    /\ sm = IdleSm

InitSelect ==
    /\ ec = [pc |-> "select"]
    /\ carry = IdleCarry
    /\ big = IdleBig
    /\ sm = IdleSm
    /\ msm = IdleMsm

\* the tables and selectors ec_select_from_bits is called with: up to
\* 2^MaxWindowBits points, and one to MaxWindowBits selector bits
SelectTables(cv) ==
    UNION {[1..len -> {BasePoint(cv), AffineNeg(cv, BasePoint(cv))}] :
               len \in 0..Pow2(MaxWindowBits)}

SelectBits == UNION {[1..w -> {0, 1}] : w \in 1..MaxWindowBits}

\* lines 286-303: one call of ec_select_from_bits
EcSelectFromBits ==
    /\ ec.pc = "select"
    /\ \E cv \in MsmCurves :
       \E points \in SelectTables(cv), sel \in SelectBits :
           ec' = [pc |-> "done", op |-> "ec_select_from_bits", curve |-> cv,
                  points |-> points, sel |-> sel]
                 @@ ec_select_from_bits(cv, points, sel)
    /\ UNCHANGED <<carry, big, sm, msm>>

InitShapes == InitSm \/ InitMsmShapes \/ InitCrt \/ InitSelect

NextShapes == NextSm \/ NextMsm \/ NextCrt \/ EcSelectFromBits

SpecShapes == InitShapes /\ [][NextShapes]_vars

\* the shape violations of multi_scalar_multiply
MsmShapeViolation(r) ==
    \/ Len(r.P) = 0
    \/ Len(r.P) # Len(r.scalars)
    \/ \E i \in 1..Len(r.scalars) : r.scalars[i] = <<>>
    \/ \E i, j \in 1..Len(r.scalars) : Len(r.scalars[i]) # Len(r.scalars[j])

\* C20: scalar_multiply or multi_scalar_multiply with an empty scalar,
\* multi_scalar_multiply with no point, with different numbers of points and
\* scalars or with scalars of different chunk counts, a CRT combinator with
\* operands of different limb counts, and ec_select_from_bits with a table
\* whose size is not 2^(number of selector bits) each end in an assertion
\* failure as soon as they run, and return no value.
C20_ShapeViolationsPanic ==
    /\ (sm.pc \notin {"idle", "start"} /\ sm.scalar = <<>>)
       => /\ sm.pc = "panic"
          /\ sm.failed = "assert !scalar.is_empty()"
          /\ sm.curr_point = NoPoint
    /\ (msm.pc \notin {"idle", "start"} /\ MsmShapeViolation(msm))
       => /\ msm.pc = "panic"
          /\ msm.failed = "shape assertion"
          /\ msm.curr_point = NoPoint
          /\ msm.rand_start_vec = <<>>
    /\ (big.pc = "done"
           /\ Len(big.a.truncation.limbs) # Len(big.b.truncation.limbs))
       => /\ big.status = "panic"
          /\ "out" \notin DOMAIN big
    /\ (ec.pc = "done" /\ Pow2(Len(ec.sel)) # Len(ec.points))
       => /\ ec.status = "panic"
          /\ ec.R = NoPoint

\* each of the violations has happened: an empty scalar, scalars of one
\* and of two chunks, operands of one and of two limbs, three points for
\* two selector bits
C20_WitnessSm == sm.pc = "panic" /\ sm.scalar = <<>>

C20_Witness ==
    /\ msm.pc = "panic"
    /\ Len(msm.P) = 2
    /\ Len(msm.scalars) = 2
    /\ Len(msm.scalars[1]) = 1
    /\ Len(msm.scalars[2]) = 2

C20_WitnessCrt ==
    /\ big.pc = "done"
    /\ big.status = "panic"
    /\ big.op = "scalar_mul_and_add_no_carry::crt"
    /\ big.a.truncation.limb_bits = big.b.truncation.limb_bits
    /\ Len(big.a.truncation.limbs) # Len(big.b.truncation.limbs)

C20_WitnessSelect ==
    /\ ec.pc = "done"
    /\ ec.status = "panic"
    /\ Len(ec.points) = 3
    /\ Len(ec.sel) = 2

(***************************************************************************)
(* gates: the basic gate of FlexGateConfig.  A region is the cells handed  *)
(* to assign_region, the offsets the gate is enabled at with the           *)
(* coefficients written to the second fixed column, and the pairs of cells *)
(* constrained equal.  Existing and Constant cells are pinned to their     *)
(* value by the copy constraint; a Witness cell is free.                   *)
(***************************************************************************)
GateStrategies == {"Vertical", "PlonkPlus"}

QuantumCell(kind, value) == [kind |-> kind, value |-> value]

QExisting(v) == QuantumCell("Existing", v)

QWitness(v) == QuantumCell("Witness", v)

QConstant(v) == QuantumCell("Constant", v)

GateAt(offset, q_coeff) == [offset |-> offset, q_coeff |-> q_coeff]

\* assign_region, lines 229-239: the default coefficients [1, 0, 0]
DefaultCoeff == <<1, 0, 0>>

\* assign_region, lines 216-239: the second fixed column after the writes of
\* every gate, in order; rows never written hold 0
RECURSIVE assign_fixed(_, _)
assign_fixed(col, gates) ==
    IF gates = <<>>
    THEN col
    ELSE LET g == Head(gates)
         IN  assign_fixed([r \in DOMAIN col |->
                              IF r - 1 \in g.offset..(g.offset + 2)
                              THEN g.q_coeff[r - g.offset]
                              ELSE col[r]],
                          Tail(gates))

\* create_gate and create_plonk_gate, lines 76-106, on the four cells from
\* offset on
gate_holds(strategy, p, v, q_aux, offset) ==
    LET a == At(v, offset)
        b == At(v, offset + 1)
        c == At(v, offset + 2)
        d == At(v, offset + 3)
    IN  IF strategy = "Vertical"
        THEN (a + b * c - d) % p = 0
        ELSE LET q_mul == At(q_aux, offset)
                 q_left == At(q_aux, offset + 1)
                 q_right == At(q_aux, offset + 2)
             IN  (a + q_left * b + q_right * c + q_mul * b * c - d) % p = 0

\* the assignments of the region's cells that agree with the pinned cells
region_assignments(region, p) ==
    LET free == {i \in 1..Len(region.cells) :
                    region.cells[i].kind = "Witness"}
    IN  {[i \in 1..Len(region.cells) |->
             IF i \in free THEN f[i] ELSE region.cells[i].value % p] :
         f \in [free -> 0..(p - 1)]}

\* every enabled gate and every equality holds
region_satisfied(strategy, p, region, v) ==
    LET q_aux == assign_fixed([r \in 1..(Len(region.cells) + 3) |-> 0],
                              region.gates)
    IN  /\ \A g \in 1..Len(region.gates) :
               gate_holds(strategy, p, v, q_aux, region.gates[g].offset)
        /\ \A e \in 1..Len(region.eqs) :
               At(v, region.eqs[e][1]) = At(v, region.eqs[e][2])

\* the witness values the code assigns
region_witness(region, p) ==
    [i \in 1..Len(region.cells) |-> region.cells[i].value % p]

\* the values the constraints let the cell at index out take
region_accepted(strategy, p, region, out) ==
    {At(v, out) : v \in {w \in region_assignments(region, p) :
                            region_satisfied(strategy, p, region, w)}}

\* select, lines 677-731, with the first PlonkPlus gate left on the default
\* coefficients
select_region_default_coeff(strategy, p, a, b, sel) ==
    LET diff_val == (a - b) % p
        out_val == (a * sel + b * (1 - sel)) % p
    IN  IF strategy = "Vertical"
        THEN [cells |-> <<QWitness(diff_val), QConstant(1), QExisting(b),
                          QExisting(a), QExisting(b), QExisting(sel),
                          QWitness(diff_val), QWitness(out_val)>>,
              gates |-> <<GateAt(0, DefaultCoeff), GateAt(4, DefaultCoeff)>>,
              eqs |-> << <<0, 6>> >>]
        ELSE [cells |-> <<QConstant(0), QExisting(a), QWitness(diff_val),
                          QExisting(b), QExisting(sel), QWitness(diff_val),
                          QWitness(out_val)>>,
              gates |-> <<GateAt(0, DefaultCoeff), GateAt(3, DefaultCoeff)>>,
              eqs |-> << <<2, 5>> >>]

\* select, lines 677-731: the region of each strategy
select_region(strategy, p, a, b, sel) ==
    LET diff_val == (a - b) % p
        out_val == (a * sel + b * (1 - sel)) % p
    IN  IF strategy = "Vertical"
        THEN [cells |-> <<QWitness(diff_val), QConstant(1), QExisting(b),
                          QExisting(a), QExisting(b), QExisting(sel),
                          QWitness(diff_val), QWitness(out_val)>>,
              gates |-> <<GateAt(0, DefaultCoeff), GateAt(4, DefaultCoeff)>>,
              eqs |-> << <<0, 6>> >>]
        ELSE [cells |-> <<QConstant(0), QExisting(a), QWitness(diff_val),
                          QExisting(b), QExisting(sel), QWitness(diff_val),
                          QWitness(out_val)>>,
              gates |-> <<GateAt(0, <<0, 1, -1>>), GateAt(3, DefaultCoeff)>>,
              eqs |-> << <<2, 5>> >>]

\* select: the value returned, whether the assigned witness satisfies the
\* constraints, and the outputs the constraints accept
gate_select(strategy, p, a, b, sel) ==
    LET region == select_region(strategy, p, a, b, sel)
        last == Len(region.cells) - 1
    IN  [out |-> At(region_witness(region, p), last),
         sat |-> region_satisfied(strategy, p, region,
                                  region_witness(region, p)),
         accepted |-> region_accepted(strategy, p, region, last)]

InitGate ==
    /\ ec = [pc |-> "gate"]
    /\ carry = IdleCarry
    /\ big = IdleBig
    /\ sm = IdleSm
    /\ msm = IdleMsm

\* one call of FlexGateConfig::select on assigned field elements
GateSelect ==
    /\ ec.pc = "gate"
    /\ \E cv \in ToyCurves, strategy \in GateStrategies :
       \E a \in FieldElems(cv), b \in FieldElems(cv), sel \in FieldElems(cv) :
           ec' = [pc |-> "done", op |-> "select", curve |-> cv,
                  strategy |-> strategy, a |-> a, b |-> b, sel |-> sel]
                 @@ gate_select(strategy, cv.p, a, b, sel)
    /\ UNCHANGED <<carry, big, sm, msm>>

\* one call of ec_select, lines 255-268: select on each coordinate
EcSelect ==
    /\ ec.pc = "gate"
    /\ \E cv \in ToyCurves, strategy \in GateStrategies :
       \E P \in CurvePoints(cv), Q \in CurvePoints(cv), sel \in {0, 1} :
           LET Rx == gate_select(strategy, cv.p, P.x, Q.x, sel)
               Ry == gate_select(strategy, cv.p, P.y, Q.y, sel)
           IN  ec' = [pc |-> "done", op |-> "ec_select", curve |-> cv,
                      strategy |-> strategy, P |-> P, Q |-> Q, sel |-> sel,
                      R |-> Pt(Rx.out, Ry.out),
                      sat |-> Rx.sat /\ Ry.sat,
                      accepted |-> {Pt(x, y) : x \in Rx.accepted,
                                               y \in Ry.accepted}]
    /\ UNCHANGED <<carry, big, sm, msm>>

\* idx_to_indicator, lines 832-872: region i of the check
\* ind[i] * (i - idx) == 0, with ind[i] and idx existing cells
idx_to_indicator_region(p, idx, ind_i, i) ==
    [cells |-> <<QConstant(0), QExisting(ind_i), QExisting(idx),
                 QWitness((ind_i * idx) % p), QConstant(-i),
                 QExisting(ind_i), QConstant(0)>>,
     gates |-> <<GateAt(0, DefaultCoeff), GateAt(3, DefaultCoeff)>>,
     eqs |-> <<>>]

\* idx_to_indicator: the vector returned, whether the assigned witness
\* satisfies the constraints, and the vectors the constraints accept for the
\* cells of ind, which are assigned as witnesses under no gate
idx_to_indicator(strategy, p, idx, len) ==
    LET ind == [i \in 1..len |-> IF (i - 1) % p = idx THEN 1 ELSE 0]
        holds(v) ==
            \A i \in 1..len :
                LET region == idx_to_indicator_region(p, idx, v[i], i - 1)
                IN  \E w \in region_assignments(region, p) :
                        region_satisfied(strategy, p, region, w)
    IN  [ind |-> ind,
         sat |-> holds(ind),
         accepted |-> {v \in [1..len -> 0..(p - 1)] : holds(v)}]

\* the lengths idx_to_indicator is called with
IndicatorLens == 1..3

\* one call of idx_to_indicator on an assigned idx
IdxToIndicator ==
    /\ ec.pc = "gate"
    /\ \E cv \in ToyCurves, strategy \in GateStrategies :
       \E idx \in FieldElems(cv), len \in IndicatorLens :
           ec' = [pc |-> "done", op |-> "idx_to_indicator", curve |-> cv,
                  strategy |-> strategy, idx |-> idx, len |-> len]
                 @@ idx_to_indicator(strategy, cv.p, idx, len)
    /\ UNCHANGED <<carry, big, sm, msm>>

NextGate == GateSelect \/ EcSelect \/ IdxToIndicator

SpecGate == InitGate /\ [][NextGate]_vars

OtherStrategy(strategy) ==
    IF strategy = "Vertical" THEN "PlonkPlus" ELSE "Vertical"

\* C21: for a boolean sel, select constrains its output to
\* a*sel + b*(1 - sel) under the Vertical and under the PlonkPlus strategy,
\* both accepting the same outputs, and ec_select(P, Q, sel) returns P when
\* sel = 1 and Q when sel = 0, the only point its constraints accept.
C21_SelectIsMux ==
    /\ (ec.pc = "done" /\ ec.op = "select" /\ ec.sel \in {0, 1})
       => /\ ec.accepted
                 = {(ec.a * ec.sel + ec.b * (1 - ec.sel)) % ec.curve.p}
          /\ ec.out \in ec.accepted
          /\ ec.sat
          /\ gate_select(OtherStrategy(ec.strategy), ec.curve.p,
                         ec.a, ec.b, ec.sel).accepted = ec.accepted
    /\ (ec.pc = "done" /\ ec.op = "ec_select")
       => /\ ec.R = IF ec.sel = 1 THEN ec.P ELSE ec.Q
          /\ ec.R = ec_select(ec.curve, ec.P, ec.Q, ec.sel)
          /\ ec.accepted = {ec.R}
          /\ ec.sat

\* ec_select under PlonkPlus picks Q out of two different points
C21_Witness ==
    /\ ec.pc = "done"
    /\ ec.op = "ec_select"
    /\ ec.strategy = "PlonkPlus"
    /\ ec.sel = 0
    /\ ec.P.x # ec.Q.x
    /\ ec.P.y # ec.Q.y
    /\ ec.R = ec.Q

(***************************************************************************)
(* The order of the enforce_less_than calls and of the add_unequal and     *)
(* sub_unequal calls in multi_scalar_multiply and EccChip::sum.  A point   *)
(* is named by the variable that holds it; an operand is the set of the    *)
(* points it can be, a table row for the result of ec_select_from_bits.    *)
(* Each call is recorded with the points enforce_less_than has been        *)
(* called on before it.                                                    *)
(***************************************************************************)
PointId(name, idx) == [name |-> name, idx |-> idx]

UnequalCall(op, P, Q, is_strict, enforced) ==
    [op |-> op, P |-> P, Q |-> Q, is_strict |-> is_strict,
     enforced |-> enforced]

\* lines 532-540 without the enforce_less_than of line 538
msm_row_enforced_skipped(enforced, new_point) == enforced

\* line 538: enforce_less_than on the new table entry
msm_row_enforced(enforced, new_point) == enforced \cup {new_point}

\* the rows of a strict run: the number of points, the window width, the
\* number of windows and the capacity of the native field
InitStrict ==
    /\ \/ \E k \in 1..3, window_bits \in 1..MaxWindowBits,
             num_windows \in 1..2, capacity \in {2, 253} :
              msm = [pc |-> "row", op |-> "multi_scalar_multiply", k |-> k,
                     window_bits |-> window_bits,
                     num_windows |-> num_windows, capacity |-> capacity,
                     idx |-> 0, pt |-> 0, len |-> 0, ver |-> 0,
                     enforced |-> {}, calls |-> {}]
       \/ \E k \in 0..3 :
              msm = [pc |-> "load", op |-> "sum", k |-> k,
                     window_bits |-> 0, num_windows |-> 0, capacity |-> 0,
                     idx |-> 0, pt |-> 0, len |-> 0, ver |-> 0,
                     enforced |-> {}, calls |-> {}]
    /\ carry = IdleCarry
    /\ big = IdleBig
    /\ ec = IdleEc
    /\ sm = IdleSm

\* lines 517-531: the first entry of the row of point idx
StrictRow ==
    /\ msm.pc = "row"
    /\ LET base == PointId("cached_points", msm.len)
       IN  msm' = [msm EXCEPT
               !.pc = "entry",
               !.calls = @ \cup {UnequalCall("sub_unequal",
                   {PointId("rand_start_vec", msm.idx)},
                   {PointId("rand_start_vec", msm.idx + msm.window_bits)},
                   FALSE, msm.enforced)},
               !.enforced = @ \cup {PointId("P", msm.idx), base},
               !.len = @ + 1,
               !.pt = 1]
    /\ UNCHANGED <<carry, big, ec, sm>>

\* lines 532-541: one more entry of the row, or the end of the row
StrictEntry ==
    /\ msm.pc = "entry"
    /\ IF msm.pt < Pow2(msm.window_bits)
       THEN LET prev == PointId("cached_points", msm.len - 1)
                new_point == PointId("cached_points", msm.len)
            IN  msm' = [msm EXCEPT
                    !.calls = @ \cup {UnequalCall("add_unequal", {prev},
                        {PointId("P", msm.idx)}, TRUE, msm.enforced)},
                    !.enforced = msm_row_enforced(@, new_point),
                    !.len = @ + 1,
                    !.pt = @ + 1]
       ELSE msm' = [msm EXCEPT
                    !.pc = IF msm.idx + 1 < msm.k THEN "row" ELSE "start",
                    !.idx = IF msm.idx + 1 < msm.k THEN @ + 1 ELSE 0,
                    !.pt = 0]
    /\ UNCHANGED <<carry, big, ec, sm>>

\* lines 547-554: start_point, strict once k reaches the capacity
StrictStart ==
    /\ msm.pc = "start"
    /\ LET P == PointId("rand_start_vec", msm.k)
           Q == PointId("rand_start_vec", 0)
       IN  msm' = IF msm.k < msm.capacity
                  THEN [msm EXCEPT
                           !.pc = "double",
                           !.calls = @ \cup {UnequalCall("sub_unequal",
                               {P}, {Q}, FALSE, msm.enforced)}]
                  ELSE [msm EXCEPT
                           !.pc = "double",
                           !.enforced = @ \cup {P, Q},
                           !.calls = @ \cup {UnequalCall("sub_unequal",
                               {P}, {Q}, TRUE, msm.enforced \cup {P, Q})}]
    /\ UNCHANGED <<carry, big, ec, sm>>

\* curr_point, named by the number of times it has been assigned; it is
\* start_point until then
CurrPoint(r) ==
    IF r.ver = 0 THEN PointId("start_point", 0)
    ELSE PointId("curr_point", r.ver)

\* lines 559-561: the doublings of window idx
StrictDouble ==
    /\ msm.pc = "double"
    /\ msm' = [msm EXCEPT !.pc = "add", !.pt = 0,
                          !.ver = @ + msm.window_bits]
    /\ UNCHANGED <<carry, big, ec, sm>>

\* lines 562-575: the addition of the entry selected from the row of point
\* pt, or the end of the window
StrictAdd ==
    /\ msm.pc = "add"
    /\ IF msm.pt < msm.k
       THEN LET cache_size == Pow2(msm.window_bits)
                row == {PointId("cached_points", msm.pt * cache_size + j) :
                            j \in 0..(cache_size - 1)}
                curr == CurrPoint(msm)
            IN  msm' = [msm EXCEPT
                    !.enforced = @ \cup {curr},
                    !.calls = @ \cup {UnequalCall("add_unequal", {curr}, row,
                        TRUE, msm.enforced \cup {curr})},
                    !.ver = @ + 1,
                    !.pt = @ + 1]
       ELSE msm' = [msm EXCEPT
                    !.pc = IF msm.idx + 1 < msm.num_windows
                           THEN "double" ELSE "finish",
                    !.idx = @ + 1]
    /\ UNCHANGED <<carry, big, ec, sm>>

\* lines 577-579: the blinding is taken off
StrictFinish ==
    /\ msm.pc = "finish"
    /\ LET curr == CurrPoint(msm)
           start == PointId("start_point", 0)
       IN  msm' = [msm EXCEPT
               !.pc = "done",
               !.enforced = @ \cup {start, curr},
               !.calls = @ \cup {UnequalCall("sub_unequal", {curr}, {start},
                   TRUE, msm.enforced \cup {start, curr})}]
    /\ UNCHANGED <<carry, big, ec, sm>>

\* acc of EccChip::sum, named by the number of times it has been assigned
AccPoint(r) ==
    IF r.ver = 0 THEN PointId("rand_point", 0) ELSE PointId("acc", r.ver)

\* sum, lines 814-816
SumLoad ==
    /\ msm.pc = "load"
    /\ msm' = [msm EXCEPT !.pc = "point",
                          !.enforced = @ \cup {PointId("rand_point", 0)}]
    /\ UNCHANGED <<carry, big, ec, sm>>

\* sum, lines 817-821: one point
SumPoint ==
    /\ msm.pc = "point"
    /\ msm.idx < msm.k
    /\ LET point == PointId("points", msm.idx)
           acc == AccPoint(msm)
           new_acc == PointId("acc", msm.ver + 1)
       IN  msm' = [msm EXCEPT
               !.idx = @ + 1,
               !.ver = @ + 1,
               !.calls = @ \cup {UnequalCall("add_unequal", {acc}, {point},
                   TRUE, msm.enforced \cup {point})},
               !.enforced = @ \cup {point, new_acc}]
    /\ UNCHANGED <<carry, big, ec, sm>>

\* sum, line 822
SumFinish ==
    /\ msm.pc = "point"
    /\ msm.idx = msm.k
    /\ msm' = [msm EXCEPT
           !.pc = "done",
           !.calls = @ \cup {UnequalCall("sub_unequal", {AccPoint(msm)},
               {PointId("rand_point", 0)}, TRUE, msm.enforced)}]
    /\ UNCHANGED <<carry, big, ec, sm>>

NextStrict ==
    \/ StrictRow
    \/ StrictEntry
    \/ StrictStart
    \/ StrictDouble
    \/ StrictAdd
    \/ StrictFinish
    \/ SumLoad
    \/ SumPoint
    \/ SumFinish

SpecStrict == InitStrict /\ [][NextStrict]_vars

\* C22: in multi_scalar_multiply and EccChip::sum, every point an operand of
\* an add_unequal or sub_unequal call with is_strict = true can be (every
\* entry of the row, for an operand selected from the table) has had
\* enforce_less_than called on its x-coordinate before the call.
C22_StrictOperandsEnforced ==
    msm.pc # "idle"
    => \A call \in msm.calls :
           call.is_strict => (call.P \cup call.Q) \subseteq call.enforced

\* a finished multi_scalar_multiply of two points and two windows, with
\* strict additions to the table and from the table
C22_Witness ==
    /\ msm.pc = "done"
    /\ msm.op = "multi_scalar_multiply"
    /\ msm.k = 2
    /\ msm.num_windows = 2
    /\ msm.window_bits = 2
    /\ \E call \in msm.calls :
           /\ call.is_strict
           /\ call.op = "add_unequal"
           /\ Cardinality(call.Q) = 4
    /\ \E call \in msm.calls :
           /\ call.is_strict
           /\ call.op = "sub_unequal"
           /\ call.P = {PointId("curr_point", 8)}

\* the bound the quotient limb count has to cover:
\* overflow + n*k - bits(modulus) + 1, with overflow = bits(a.max_limb_size)
QuotientBits(a, modulus) ==
    Bits(a.max_limb_size) + a.limb_bits * Len(a.limbs) - Bits(modulus) + 1

\* C23: carry_mod's quotient limb count m is the least integer with
\* n*m >= overflow + n*k - bits(modulus) + 1, and for every a with limbs
\* within a.max_limb_size the witness quotient has |q| < 2^(n*m) and is
\* what its m limbs recompose to.
C23_QuotientFitsLimbs ==
    (BigDone("carry_mod") /\ LimbsWithin(big.a))
    => LET n == big.a.limb_bits
           q == get_carry_witness(to_bigint(big.a.limbs, n),
                                  big.modulus).quotient
       IN  /\ n * big.m >= QuotientBits(big.a, big.modulus)
           /\ n * (big.m - 1) < QuotientBits(big.a, big.modulus)
           /\ Abs(q) < Pow2(n * big.m)
           /\ Len(big.quotient_vec) = big.m
           /\ to_bigint(big.quotient_vec, n) = q

\* a negative a whose quotient reaches into the upper of three or more limbs
C23_Witness ==
    /\ BigDone("carry_mod")
    /\ LimbsWithin(big.a)
    /\ big.m >= 3
    /\ big.quotient_vec[big.m - 1] # 0
    /\ to_bigint(big.a.limbs, big.a.limb_bits) < 0
    /\ big.modulus > 1

\* the number a little-endian bit vector stands for
RECURSIVE BitsValue(_)
BitsValue(bits) ==
    IF bits = <<>> THEN 0 ELSE Head(bits) + 2 * BitsValue(Tail(bits))

\* C24: for k >= 1 boolean bits, bits_to_indicator returns exactly 2^k
\* values, 1 at the index the bits stand for (little-endian) and 0
\* elsewhere, so ec_select_from_bits returns the point at that index.
C24_IndicatorIsOneHot ==
    (ec.pc = "done" /\ ec.op = "ec_select_from_bits" /\ ec.status = "ok")
    => LET ind == bits_to_indicator(ec.sel)
       IN  /\ Len(ind) = Pow2(Len(ec.sel))
           /\ \A i \in 1..Len(ind) :
                  ind[i] = IF i - 1 = BitsValue(ec.sel) THEN 1 ELSE 0
           /\ ec.R = At(ec.points, BitsValue(ec.sel))

\* two selector bits that pick entry 1 of a table whose entry 2 differs
C24_Witness ==
    /\ ec.pc = "done"
    /\ ec.op = "ec_select_from_bits"
    /\ ec.status = "ok"
    /\ ec.sel = <<1, 0>>
    /\ At(ec.points, 1) # At(ec.points, 2)
    /\ ec.R = At(ec.points, 1)

\* bit j of the scalar the chunks stand for, padded with zeros
PaddedBit(r, j) == (ScalarValue(r.scalar, r.max_bits) \div Pow2(j)) % 2

C26_IndicatorConstrained ==
    (ec.pc = "done" /\ ec.op = "idx_to_indicator")
    => /\ Len(ec.ind) = ec.len
       /\ \A v \in ec.accepted :
              \A i \in 1..ec.len : v[i] = IF i - 1 = ec.idx THEN 1 ELSE 0

(***************************************************************************)
(* get_naf: the signed-digit recoding of a little-endian vector of words.  *)
(* The words are u64 in the code; here they have WordBits bits, and the    *)
(* loops run WordBits times where the code's run 64 times.                 *)
(***************************************************************************)
WordBits == 3

WordMax == Pow2(WordBits) - 1

\* lines 591-604: the digits of one word, and what is left of e
RECURSIVE naf_word(_, _, _)
naf_word(e, digits, steps) ==
    IF steps = 0
    THEN [e |-> e, digits |-> digits]
    ELSE IF e % 2 = 1
         THEN LET z == 2 - (e % 4)
                  half == e \div 2
              IN  naf_word(IF z = -1 THEN half + 1 ELSE half,
                           Append(digits, z), steps - 1)
         ELSE naf_word(e \div 2, Append(digits, 0), steps - 1)

\* lines 607-610: the words equal to the maximum from j on are zeroed
RECURSIVE naf_carry_index(_, _)
naf_carry_index(exp, j) ==
    IF j < Len(exp) /\ At(exp, j) = WordMax
    THEN naf_carry_index(exp, j + 1)
    ELSE j

\* lines 605-616: the carry out of word idx goes into the words after it
naf_carry(exp, idx) ==
    LET j == naf_carry_index(exp, idx + 1)
        zeroed == [i \in 1..Len(exp) |->
                      IF i - 1 \in (idx + 1)..(j - 1) THEN 0 ELSE exp[i]]
    IN  IF j < Len(exp)
        THEN [zeroed EXCEPT ![j + 1] = @ + 1]
        ELSE Append(zeroed, 1)

\* lines 589-617: the loop over the words of the argument, len of them
RECURSIVE naf_loop(_, _, _, _)
naf_loop(exp, naf, idx, len) ==
    IF idx >= len
    THEN [status |-> "ok", exp |-> exp, naf |-> naf]
    ELSE LET w == naf_word(At(exp, idx), <<>>, WordBits)
         IN  IF w.e = 0
             THEN naf_loop(exp, naf \o w.digits, idx + 1, len)
             ELSE IF w.e # 1
             THEN [status |-> "panic", exp |-> exp, naf |-> naf \o w.digits]
             ELSE naf_loop(naf_carry(exp, idx), naf \o w.digits, idx + 1, len)

\* lines 618-622: assert_eq!(len, exp.len() + 1), assert!(exp[len] == 1)
naf_finish(r, len) ==
    IF r.status = "panic"
    THEN [status |-> "panic", naf |-> r.naf]
    ELSE IF Len(r.exp) = len
    THEN [status |-> "ok", naf |-> r.naf]
    ELSE IF len # Len(r.exp) + 1
    THEN [status |-> "panic", naf |-> r.naf]
    ELSE IF At(r.exp, len) # 1
    THEN [status |-> "panic", naf |-> r.naf]
    ELSE [status |-> "ok", naf |-> Append(r.naf, 1)]

get_naf(exp) == naf_finish(naf_loop(exp, <<>>, 0, Len(exp)), Len(exp))

\* the vectors get_naf is called with: one to three words
NafInputs == UNION {[1..len -> 0..WordMax] : len \in 1..3}

InitNaf ==
    /\ \E exp \in NafInputs : carry = [pc |-> "call", exp |-> exp]
    /\ big = IdleBig
    /\ ec = IdleEc
    /\ sm = IdleSm
    /\ msm = IdleMsm

GetNaf ==
    /\ carry.pc = "call"
    /\ carry' = [pc |-> "done", exp |-> carry.exp] @@ get_naf(carry.exp)
    /\ UNCHANGED <<big, ec, sm, msm>>

NextNaf == GetNaf

SpecNaf == InitNaf /\ [][NextNaf]_vars

\* the integer a little-endian vector of digits stands for in base 2^bits
RECURSIVE DigitsValue(_, _)
DigitsValue(digits, bits) ==
    IF digits = <<>> THEN 0
    ELSE Head(digits) + Pow2(bits) * DigitsValue(Tail(digits), bits)

\* C27: for every little-endian vector of words get_naf ends without a
\* failed assertion and returns digits in {-1, 0, 1} whose weighted sum is
\* the integer the words stand for, also when the recoding carries out of
\* the most significant word.
C27_NafIsValue ==
    carry.pc = "done"
    => /\ carry.status = "ok"
       /\ \A i \in 1..Len(carry.naf) : carry.naf[i] \in {-1, 0, 1}
       /\ DigitsValue(carry.naf, 1) = DigitsValue(carry.exp, WordBits)

\* C28: the digits get_naf returns are in non-adjacent form: no two
\* consecutive digits are both nonzero, the two on either side of a word
\* boundary included.
C28_NafNonAdjacent ==
    (carry.pc = "done" /\ carry.status = "ok")
    => \A i \in 1..(Len(carry.naf) - 1) :
           carry.naf[i] = 0 \/ carry.naf[i + 1] = 0

(***************************************************************************)
(* The context's advice columns.  Every gate operation reaches the advice  *)
(* columns through assign_region; cells[c][r] is the list of the values    *)
(* assigned to row r of column c, in the order of the assignments.         *)
(***************************************************************************)
MaxRows == 3

Columns == {0, 1}

Rows == 0..(MaxRows - 1)

\* the counter of the chosen column is left short of the last input
advance_rows_short(advice_rows, gate_index, len) ==
    [advice_rows EXCEPT ![gate_index] = IF len = 0 THEN @ ELSE @ + len - 1]

\* line 236: ctx.advice_rows[gate_index] += inputs.len()
advance_rows(advice_rows, gate_index, len) ==
    [advice_rows EXCEPT ![gate_index] = @ + len]

\* lines 206-214: input i is assigned at row advice_rows[gate_index] + i
assign_cells(cells, advice_rows, gate_index, inputs) ==
    [c \in Columns |->
        [r \in Rows |->
            LET i == r - advice_rows[gate_index]
            IN  IF c = gate_index /\ i \in 0..(Len(inputs) - 1)
                THEN Append(cells[c][r], At(inputs, i).value)
                ELSE cells[c][r]]]

\* lines 195-239: the advice side of assign_region
assign_region(ctx, inputs, requested, gate_index) ==
    [pc |-> "ctx",
     cells |-> assign_cells(ctx.cells, ctx.advice_rows, gate_index, inputs),
     advice_rows |-> advance_rows(ctx.advice_rows, gate_index, Len(inputs)),
     last |-> Some([requested |-> requested,
                    gate_index |-> gate_index,
                    before |-> ctx.advice_rows,
                    inputs |-> inputs])]

\* the inputs of one call: up to MaxRows witness cells
RegionInputs == UNION {[1..len -> {QWitness(v) : v \in 0..1}] : len \in 0..MaxRows}

InitCtx ==
    /\ big = [pc |-> "ctx",
              cells |-> [c \in Columns |-> [r \in Rows |-> <<>>]],
              advice_rows |-> [c \in Columns |-> 0],
              last |-> None]
    /\ carry = IdleCarry
    /\ ec = IdleEc
    /\ sm = IdleSm
    /\ msm = IdleMsm

\* gate_index = Some(id): the caller names the column
AssignRegionAt ==
    /\ big.pc = "ctx"
    /\ \E id \in Columns, inputs \in RegionInputs :
          /\ big.advice_rows[id] + Len(inputs) <= MaxRows
          /\ big' = assign_region(big, inputs, Some(id), id)
    /\ UNCHANGED <<carry, ec, sm, msm>>

\* gate_index = None: the column is the one ctx.min_gate_index() returns,
\* which is whichever column the context picks
AssignRegionAuto ==
    /\ big.pc = "ctx"
    /\ \E id \in Columns, inputs \in RegionInputs :
          /\ big.advice_rows[id] + Len(inputs) <= MaxRows
          /\ big' = assign_region(big, inputs, None, id)
    /\ UNCHANGED <<carry, ec, sm, msm>>

NextCtx == AssignRegionAt \/ AssignRegionAuto

SpecCtx == InitCtx /\ [][NextCtx]_vars

\* C29: after any sequence of assign_region calls no advice cell has been
\* assigned twice; the last call wrote its inputs in order at rows
\* advice_rows[g] .. advice_rows[g] + len - 1 of its column g, increased
\* advice_rows[g] by exactly len and left the other counters as they were,
\* so no counter is below its value before the call.
C29_NoCellAssignedTwice ==
    big.pc = "ctx"
    => /\ \A c \in Columns, r \in Rows : Len(big.cells[c][r]) <= 1
       /\ \A c \in Columns, r \in Rows :
              big.cells[c][r] # <<>> => r < big.advice_rows[c]
       /\ big.last # None
          => LET call == big.last[1]
                 g == call.gate_index
                 len == Len(call.inputs)
             IN  /\ big.advice_rows[g] = call.before[g] + len
                 /\ \A c \in Columns \ {g} :
                        big.advice_rows[c] = call.before[c]
                 /\ \A c \in Columns : big.advice_rows[c] >= call.before[c]
                 /\ \A i \in 0..(len - 1) :
                        big.cells[g][call.before[g] + i]
                            = <<At(call.inputs, i).value>>

\* two calls have written into the same column, the second one after the
\* first one's rows
C29_Witness ==
    /\ big.pc = "ctx"
    /\ big.last # None
    /\ Len(big.last[1].inputs) >= 2
    /\ big.last[1].before[big.last[1].gate_index] >= 1
    /\ big.last[1].requested = None
    /\ \E c \in Columns \ {big.last[1].gate_index} : big.advice_rows[c] >= 1

(***************************************************************************)
(* accumulated_product, flex_gate.rs lines 542-584.  ret is the vector of  *)
(* cells returned; a cell is modelled by its value in F_p.                 *)
(***************************************************************************)

\* lines 566-579: the loop over idx = 1 .. k - 1.  ret[ret.len() - 1] on an
\* empty ret is an index out of the vector (or an overflow of the
\* subtraction on usize): the call panics either way.
RECURSIVE accumulated_product_loop(_, _, _, _, _)
accumulated_product_loop(p, vec_a, vec_b, ret, idx) ==
    IF idx >= Len(vec_b)
    THEN [status |-> "ok", ret |-> ret]
    ELSE IF Len(ret) = 0
    THEN [status |-> "panic", ret |-> ret]
    ELSE LET prev == At(ret, Len(ret) - 1)
             out == (prev * At(vec_a, idx - 1) + At(vec_b, idx)) % p
         IN  accumulated_product_loop(p, vec_a, vec_b,
                                      Append(ret, out), idx + 1)

accumulated_product(strategy, p, vec_a, vec_b) ==
    IF Len(vec_a) + 1 # Len(vec_b)
    THEN [status |-> "panic", ret |-> <<>>]
    ELSE IF strategy = "PlonkPlus"
    THEN [status |-> "panic", ret |-> <<>>]
    ELSE IF Len(vec_b) = 1
    THEN [status |-> "ok", ret |-> <<At(vec_b, 0)>>]
    ELSE accumulated_product_loop(p, vec_a, vec_b, <<>>, 1)

\* vectors of at most n field elements
FieldVecs(p, lens) == UNION {[1..len -> 0..(p - 1)] : len \in lens}

InitAcc ==
    /\ \E strategy \in GateStrategies :
       \E vec_a \in FieldVecs(BnToy.p, 0..2), vec_b \in FieldVecs(BnToy.p, 1..3) :
           ec = [pc |-> "acc", strategy |-> strategy, p |-> BnToy.p,
                 vec_a |-> vec_a, vec_b |-> vec_b]
    /\ carry = IdleCarry
    /\ big = IdleBig
    /\ sm = IdleSm
    /\ msm = IdleMsm

AccumulatedProduct ==
    /\ ec.pc = "acc"
    /\ ec' = [ec EXCEPT !.pc = "done"]
                @@ accumulated_product(ec.strategy, ec.p, ec.vec_a, ec.vec_b)
    /\ UNCHANGED <<carry, big, sm, msm>>

NextAcc == AccumulatedProduct

SpecAcc == InitAcc /\ [][NextAcc]_vars

\* C30: on the Vertical strategy, for vec_b of length k >= 1 and vec_a of
\* length k - 1, accumulated_product completes and returns k values: the
\* first is vec_b[0] and each next one is previous * vec_a[idx - 1] +
\* vec_b[idx], idx = 1 .. k - 1.
C30_AccumulatedProduct ==
    (ec.pc = "done" /\ ec.strategy = "Vertical"
        /\ Len(ec.vec_a) + 1 = Len(ec.vec_b))
    => /\ ec.status = "ok"
       /\ Len(ec.ret) = Len(ec.vec_b)
       /\ At(ec.ret, 0) = At(ec.vec_b, 0)
       /\ \A idx \in 1..(Len(ec.vec_b) - 1) :
              At(ec.ret, idx)
                  = (At(ec.ret, idx - 1) * At(ec.vec_a, idx - 1)
                        + At(ec.vec_b, idx)) % ec.p

=============================================================================
